---- MODULE Spec2Model ----
(***************************************************************************)
(* Model of the countdown-timer engine of FreeTimerAlert:                  *)
(*   src/src/core/timer.py              Timer and its background loop      *)
(*   src/src/services/timer_service.py  TimerService and its tick thread   *)
(*                                                                         *)
(* Time.  time.monotonic() is read on a grid of whole seconds.  A step of  *)
(* any thread takes no time; time passes in Advance steps of one second.   *)
(* The Timer keeps the absolute reading _last_update_monotonic; the model  *)
(* keeps `age`, the time that has passed since that reading, and for the   *)
(* loop's local `now` the time that has passed since it was read (t_lag).  *)
(* Then  now - _last_update_monotonic  =  age - t_lag.                     *)
(*                                                                         *)
(* Threads.  One control thread issues the public operations; its lock     *)
(* sections are single steps.  The Timer's background thread and the       *)
(* service's thread take one step per access to shared state, except that  *)
(* the loop condition `not stop_event.is_set()` and the read of the status *)
(* that follows it are one step: a stop() that falls between the two reads *)
(* sends the loop to the same exit through its wait.                       *)
(*                                                                         *)
(* Lock.  A `with self._lock:` block is one step; `lock` is the thread     *)
(* that holds the lock between two steps.  _notify(callbacks) is one step  *)
(* that invokes the whole list; a callback that re-enters the Timer needs  *)
(* the lock to be free.                                                    *)
(***************************************************************************)
EXTENDS Integers, Sequences, FiniteSets, TLC

\* ---------------------------------------------------------------- bounds
MaxDuration == 2        \* durations 1..MaxDuration seconds
MaxAdds == 1            \* add_time calls with a positive span between two resets
MaxLag == 1             \* seconds the loop may be delayed between reading the clock and taking the lock
MaxCount == 3           \* the callback invocation counters saturate here
MaxTick == 2            \* tick(n) is called with n in 1..MaxTick seconds

\* ------------------------------------------------------ program constants
Resolution == 1         \* _resolution_seconds = 0.1: on whole-second readings, delta >= 0.1 iff delta >= 1
JoinTimeout == 2        \* thread.join(timeout=2.0)
TickSeconds == 1        \* timer.tick(seconds=1)
SvcWait == 1            \* stop_event.wait(timeout=1.0)
ExtraSeconds == 1       \* the positive span the control thread passes to add_time

MaxRemaining == MaxDuration + MaxAdds * ExtraSeconds
\* age saturates here: a delta this large clamps remaining to 0 like any larger one
MaxAge == MaxRemaining + MaxLag

TimerStatus == {"IDLE", "RUNNING", "PAUSED", "FINISHED", "STOPPED"}

None == <<"None">>      \* Python's None for a local list of callbacks
StartLists == {<<"cb">>}
EndLists == {<<>>, <<"cb">>}

\* Callback handles: "cb" returns, "bad" raises an exception, "reads" re-enters
\* the Timer through its lock-protected accessor `remaining`.
CbStartLists == {<<"bad", "cb">>, <<"reads", "bad">>}
CbEndLists == {<<>>, <<"bad", "reads", "cb">>}

\* Timer(duration=d) is called with d in CtorArgs
CtorArgs == (0 - 1)..MaxDuration
\* add_time(extra) is called with extra in ExtraArgs
ExtraArgs == {0 - ExtraSeconds, 0, ExtraSeconds}

VARIABLES
    \* Timer fields: duration, status, _remaining, _stop_event, _last_update_monotonic (as age), on_start, on_end
    duration, status, remaining, stop_event, age, on_start, on_end,
    \* Timer._thread running Timer._run: position, local now (as lag), local callbacks
    tpc, t_lag, t_callbacks,
    \* control thread: position, labels to return to, time left of the join in progress, start()'s local callbacks
    cpc, cstack, join_left, c_callbacks,
    \* TimerService: _threads[name] running _run_timer, _stop_events[name], time left of its wait, tick()'s local callbacks
    spc, svc_stop, s_wait, s_callbacks,
    \* the call Timer(duration=arg): the argument, whether it returned a Timer, the exception that last reached a caller
    arg, created, raised,
    \* Timer._lock: the thread that holds it between two steps; a shared field has been written without it
    lock, unlocked,
    \* TimerService: _timers, _threads, _stop_events; the name of its last call; the value a call returned (a Timer as its id, None as Absent, a float as its fraction)
    timers, threads, stop_events, name, ret,
    \* two more control contexts that call create_timer: where each is in its call, its arguments, what it got
    callers,
    \* the Timer of src/timer.py: its fields, its countdown threads, the position of its caller
    legacy,
    \* observations
    log,            \* the callbacks invoked since the last effective start(), in order, as <<"start" or "end", callback>>
    op,             \* the public operation the control thread called last
    timedOut,       \* the last join returned because its timeout passed
    stoppedFrom,    \* while stop() waits in its join: the status it found
    added,          \* extra time added since construction or the last reset
    startCount,     \* invocations of each on_start callback since the last effective start()
    endCount,       \* invocations of each on_end callback since the last effective start()
    decBy,          \* the threads that decremented remaining since the last effective start()
    owed,           \* RUNNING time the current run still has to spend before remaining is used up
    early,          \* the run reached FINISHED while it still owed RUNNING time
    clamped,        \* the decrement that finished the run took remaining below zero before the clamp
    t_paused,       \* PAUSED time between the loop's read of the status and its read of the clock
    resumed,        \* resume() took effect and the loop has not decremented since
    sinceResume     \* time passed since that resume()

timerVars == <<duration, status, remaining, stop_event, age, on_start, on_end>>
threadVars == <<tpc, t_lag, t_callbacks>>
ctlVars == <<cpc, cstack, join_left, c_callbacks>>
svcVars == <<spc, svc_stop, s_wait, s_callbacks>>
catVars == <<timers, threads, stop_events, name, ret>>
\* what no operation of a Timer used on its own touches
extVars == <<callers, legacy>>
ctxVars == <<arg, catVars, extVars>>
ctorVars == <<ctxVars, created, raised>>
lockVars == <<lock, unlocked>>
runVars == <<startCount, endCount, decBy, log>>
clockVars == <<owed, early, clamped, t_paused, resumed, sinceResume>>
histVars == <<op, timedOut, stoppedFrom, added, runVars, clockVars>>
vars == <<timerVars, threadVars, ctlVars, svcVars, ctorVars, lockVars, histVars>>

Min(a, b) == IF a < b THEN a ELSE b
Max(a, b) == IF a > b THEN a ELSE b

\* self._thread is not None and self._thread.is_alive()
ThreadAlive == tpc \notin {"none", "dead"}
\* name in self._threads and self._threads[name].is_alive()
SvcAlive == spc \notin {"none", "dead"}

\* The fields Timer(duration=d) sets from its argument and the default of
\* status; model_post_init sets _remaining
NewTimer(d) == [duration |-> d, status |-> "IDLE", remaining |-> d]

\* The fields before the constructor has run
NoTimer == [duration |-> 0, status |-> "-", remaining |-> 0]

\* The state in which Timer(duration=d, on_start=..., on_end=...) returns, or
\* has not returned (fields = NoTimer): the defaults of the private attributes
Constructed(fields, starts, ends) ==
    /\ duration = fields.duration
    /\ status = fields.status
    /\ remaining = fields.remaining
    /\ stop_event = FALSE
    /\ age = MaxAge
    /\ on_start \in starts
    /\ on_end \in ends
    /\ tpc = "none"
    /\ lock = "free" /\ unlocked = FALSE

\* The names the control thread passes to the TimerService
Names == {"work", "break"}

\* self._timers.get(name) for a name that is not a key: None, which is also
\* what a call that returns no Timer hands back
Absent == [id |-> 0]

\* the control contexts that call create_timer side by side
Callers == {1, 2}

\* a context that is not in a call and holds nothing
NoCall == [pc |-> "idle", name |-> "-", d |-> 0, got |-> 0]

\* the threads a Timer of src/timer.py may have spawned and not yet seen end
LegacyThreads == {1, 2}

\* no Timer of src/timer.py has been constructed; once it is: remaining is
\* None while `unset`, each thread is at `pc` of run() holding the remaining
\* it read in `tmp`, the caller is at `cpc` of add_time holding `ctmp` and `extra`
NoLegacy ==
    [made |-> FALSE, duration |-> 0, remaining |-> 0, unset |-> TRUE,
     running |-> FALSE, stop_signal |-> FALSE,
     th |-> [t \in LegacyThreads |-> [pc |-> "none", tmp |-> 0]],
     cpc |-> "idle", ctmp |-> 0, extra |-> 0, op |-> "-", adds |-> 0]

\* TimerService(): three empty dictionaries; no call has been made
EmptyCatalog ==
    /\ timers = [n \in Names |-> Absent]
    /\ threads = [n \in Names |-> "none"]
    /\ stop_events = [n \in Names |-> "none"]
    /\ name = "-" /\ ret = Absent
    /\ callers = [c \in Callers |-> NoCall]
    /\ legacy = NoLegacy

\* Everything outside the Timer: the control thread at `pc`, no service thread, an empty catalog, nothing observed
Quiet(pc) ==
    /\ EmptyCatalog
    /\ t_lag = 0 /\ t_callbacks = None
    /\ cpc = pc /\ cstack = <<>> /\ join_left = 0 /\ c_callbacks = None
    /\ spc = "none" /\ svc_stop = FALSE /\ s_wait = 0 /\ s_callbacks = None
    /\ op = "init" /\ timedOut = FALSE /\ stoppedFrom = "-" /\ added = 0
    /\ startCount = 0 /\ endCount = 0 /\ decBy = {} /\ log = <<>>
    /\ owed = 0 /\ early = FALSE /\ clamped = FALSE /\ t_paused = 0 /\ resumed = FALSE /\ sinceResume = 0

\* a validator that admits zero
ValidateNonNegative(d) == d >= 0

\* validate_positive returns a duration above zero
\* and raises ValueError("duration must be > 0") for any other
ValidatePositive(d) == d > 0

\* Timer(duration=arg) has returned a Timer
Init ==
    /\ arg \in {d \in CtorArgs : ValidatePositive(d)}
    /\ created = TRUE /\ raised = "none"
    /\ Constructed(NewTimer(arg), StartLists, EndLists)
    /\ Quiet("idle")

\* Timer(duration=arg) is about to be called, with a valid argument or not
CtorInit ==
    /\ arg \in CtorArgs
    /\ created = FALSE /\ raised = "none"
    /\ Constructed(NoTimer, StartLists, EndLists)
    /\ Quiet("new")

\* The Timer is constructed with lists of several callbacks
CbInit ==
    /\ arg \in {d \in CtorArgs : ValidatePositive(d)}
    /\ created = TRUE /\ raised = "none"
    /\ Constructed(NewTimer(arg), CbStartLists, CbEndLists)
    /\ Quiet("idle")

\* Timer(duration=arg): the validator raises, or the Timer is returned
Construct ==
    /\ cpc = "new"
    /\ IF ValidatePositive(arg)
       THEN /\ created' = TRUE
            /\ duration' = NewTimer(arg).duration
            /\ status' = NewTimer(arg).status
            /\ remaining' = NewTimer(arg).remaining
            /\ cpc' = "idle"
            /\ UNCHANGED raised
       ELSE /\ raised' = "ValueError"
            /\ cpc' = "exit"
            /\ UNCHANGED <<created, duration, status, remaining>>
    /\ UNCHANGED <<ctxVars, stop_event, age, on_start, on_end, lockVars, threadVars>>
    /\ UNCHANGED <<cstack, join_left, c_callbacks, svcVars, histVars>>

\* ------------------------------------------------------------ call / return
\* The control thread enters a callee at `label`; `rets` lists the labels to
\* come back to, the innermost call's first.
Call(label, rets) == cpc' = label /\ cstack' = rets \o cstack
Return == cpc' = Head(cstack) /\ cstack' = Tail(cstack)
Skip(rets) == cpc' = Head(rets) /\ cstack' = Tail(rets) \o cstack

\* _notify(callbacks): the number of times each callback of the list has been invoked
Notified(count, callbacks) == IF Len(callbacks) > 0 THEN Min(count + 1, MaxCount) ELSE count

\* cb(self) raises
Raises(cb) == cb = "bad"
\* cb(self) takes the Timer's lock
Reenters(cb) == cb = "reads"

\* a _notify without its try / except
CaughtNever(cb) == FALSE

\* _notify: try: cb(self) / except Exception: the exception of a callback is logged and dropped
Caught(cb) == TRUE

\* a _notify that walks its list from the end
NotifyInvokedReversed(callbacks) ==
    [i \in 1..Len(callbacks) |-> callbacks[Len(callbacks) + 1 - i]]

\* _notify(callbacks): the callbacks invoked, in order; the loop ends at an exception that is not caught
RECURSIVE NotifyInvoked(_)
NotifyInvoked(callbacks) ==
    IF callbacks = <<>>
    THEN <<>>
    ELSE IF Raises(Head(callbacks)) /\ ~Caught(Head(callbacks))
         THEN <<Head(callbacks)>>
         ELSE <<Head(callbacks)>> \o NotifyInvoked(Tail(callbacks))

\* _notify(callbacks) ends with an exception
NotifyRaises(callbacks) ==
    \E i \in 1..Len(callbacks) : Raises(callbacks[i]) /\ ~Caught(callbacks[i])

\* _notify(callbacks) can run to its end: a callback that re-enters the Timer
\* waits for the lock, and for ever when its own thread holds it
NotifyCanRun(callbacks) ==
    (\E i \in 1..Len(callbacks) : Reenters(callbacks[i])) => lock = "free"

\* the entries _notify(callbacks) adds to the log
Logged(kind, callbacks) ==
    [i \in 1..Len(NotifyInvoked(callbacks)) |-> <<kind, NotifyInvoked(callbacks)[i]>>]

\* a local that is the list itself and not a copy of it
SnapshotLive(copy, live) == live

\* callbacks = list(self.on_start), list(self.on_end): what _notify iterates is
\* the copy made under the lock, whatever the list holds by then
Snapshot(copy, live) == copy

\* a notification moved inside the `with self._lock:` block: the lock is still held when it starts
WithExitHeld(thread) == thread

\* the end of a `with self._lock:` block releases the lock
WithExit(thread) == "free"

\* ------------------------------------------------------------ Timer.start
\* start() that looks at the status only and not at the thread
StartIgnoredStatusOnly == status \in {"RUNNING", "PAUSED"}

\* start() has no effect while the thread is alive or the status is RUNNING or PAUSED
StartIgnored == ThreadAlive \/ status \in {"RUNNING", "PAUSED"}

\* a start() that leaves the stop event as the last stop() left it
ClearedNot(event) == event

\* self._stop_event.clear()
Cleared(event) == FALSE

\* The lock section of start(), entered at `from`, returning to Head(rets).
StartLock(from, rets) ==
    /\ cpc = from
    /\ lock = "free"
    /\ IF StartIgnored
       THEN /\ Skip(rets)
            /\ UNCHANGED <<timerVars, ctorVars, lockVars, threadVars, c_callbacks, runVars, clockVars>>
       ELSE /\ stop_event' = Cleared(stop_event)
            /\ status' = "RUNNING"
            /\ age' = 0
            /\ c_callbacks' = on_start
            /\ tpc' = "loop" /\ t_lag' = 0 /\ t_callbacks' = None
            /\ lock' = WithExit("ctl")
            /\ Call("start_notify", rets)
            /\ startCount' = 0 /\ endCount' = 0 /\ decBy' = {} /\ log' = <<>>
            /\ owed' = remaining /\ early' = FALSE /\ clamped' = FALSE
            /\ t_paused' = 0 /\ resumed' = FALSE /\ sinceResume' = 0
            /\ UNCHANGED <<duration, remaining, on_start, on_end, ctorVars, unlocked>>
    /\ UNCHANGED <<join_left, timedOut, stoppedFrom, added>>

\* start(): self._notify(callbacks), outside the lock
StartNotify ==
    /\ cpc = "start_notify"
    /\ NotifyCanRun(c_callbacks)
    /\ startCount' = Notified(startCount, c_callbacks)
    /\ log' = log \o Logged("start", Snapshot(c_callbacks, on_start))
    /\ raised' = IF NotifyRaises(c_callbacks) THEN "callback" ELSE raised
    /\ c_callbacks' = None
    /\ Return
    /\ UNCHANGED <<timerVars, ctxVars, created, lockVars, threadVars, join_left, svcVars>>
    /\ UNCHANGED <<op, timedOut, stoppedFrom, added, endCount, decBy, clockVars>>

Start ==
    /\ StartLock("idle", <<"idle">>)
    /\ op' = "start"
    /\ UNCHANGED svcVars

\* ------------------------------------------------------------ Timer.pause / Timer.resume
\* pause() that does not look at the status
PauseBodyAlways ==
    /\ status' = "PAUSED"
    /\ UNCHANGED <<age, t_paused, resumed, sinceResume>>

\* with self._lock: if self.status == TimerStatus.RUNNING: self.status = TimerStatus.PAUSED
PauseBody ==
    /\ status' = IF status = "RUNNING" THEN "PAUSED" ELSE status
    /\ UNCHANGED <<age, t_paused, resumed, sinceResume>>

ResumeBody ==
    IF status = "PAUSED"
    THEN /\ status' = "RUNNING"
         /\ age' = 0
         /\ t_paused' = 0 /\ resumed' = TRUE /\ sinceResume' = 0
    ELSE UNCHANGED <<status, age, t_paused, resumed, sinceResume>>

Pause ==
    /\ cpc = "idle"
    /\ PauseBody
    /\ op' = "pause"
    /\ UNCHANGED <<duration, remaining, stop_event, on_start, on_end, ctorVars, lockVars>>
    /\ UNCHANGED <<threadVars, ctlVars, svcVars, timedOut, stoppedFrom, added, runVars, owed, early, clamped>>

Resume ==
    /\ cpc = "idle"
    /\ ResumeBody
    /\ op' = "resume"
    /\ UNCHANGED <<duration, remaining, stop_event, on_start, on_end, ctorVars, lockVars>>
    /\ UNCHANGED <<threadVars, ctlVars, svcVars, timedOut, stoppedFrom, added, runVars, owed, early, clamped>>

\* ------------------------------------------------------------ Timer.stop
\* The lock section of stop(), entered at `from`; the join follows and returns to Head(rets).
StopLock(from, rets) ==
    /\ cpc = from
    /\ IF ~ThreadAlive
       THEN /\ Skip(rets)
            /\ UNCHANGED <<stop_event, status, join_left, stoppedFrom, owed, resumed, sinceResume>>
       ELSE /\ stop_event' = TRUE
            /\ stoppedFrom' = status
            /\ status' = "STOPPED"
            /\ Call("join", rets)
            /\ join_left' = JoinTimeout
            /\ owed' = 0 /\ resumed' = FALSE /\ sinceResume' = 0
    /\ timedOut' = FALSE
    /\ UNCHANGED <<duration, remaining, age, on_start, on_end, ctorVars, lockVars, threadVars, c_callbacks>>
    /\ UNCHANGED <<added, runVars, early, clamped, t_paused>>

\* stop(): thread.join(timeout=2.0) returns when the thread has exited or the timeout has passed
StopJoin ==
    /\ cpc = "join"
    /\ tpc = "dead" \/ join_left = 0
    /\ join_left' = 0
    /\ timedOut' = (tpc # "dead")
    /\ stoppedFrom' = "-"
    /\ Return
    /\ UNCHANGED <<timerVars, ctorVars, lockVars, threadVars, c_callbacks, svcVars>>
    /\ UNCHANGED <<op, added, runVars, clockVars>>

Stop ==
    /\ StopLock("idle", <<"idle">>)
    /\ op' = "stop"
    /\ UNCHANGED svcVars

\* ------------------------------------------------------------ Timer.reset
\* reset() that does not stop a live thread
ResetBeginNoStop(from, rets) ==
    /\ cpc = from
    /\ Call("reset_final", rets)
    /\ timedOut' = FALSE
    /\ UNCHANGED <<timerVars, ctorVars, lockVars, threadVars, join_left, c_callbacks>>
    /\ UNCHANGED <<stoppedFrom, added, runVars, clockVars>>

\* reset(): was_active = self.is_active
ResetBegin(from, rets) ==
    /\ cpc = from
    /\ Call(IF ThreadAlive THEN "reset_stop" ELSE "reset_final", rets)
    /\ timedOut' = FALSE
    /\ UNCHANGED <<timerVars, ctorVars, lockVars, threadVars, join_left, c_callbacks>>
    /\ UNCHANGED <<stoppedFrom, added, runVars, clockVars>>

\* reset(): if was_active: self.stop()
ResetStop ==
    /\ StopLock("reset_stop", <<"reset_final">>)
    /\ UNCHANGED <<svcVars, op>>

\* reset(): the lock section that restores _remaining and sets IDLE
ResetFinal ==
    /\ cpc = "reset_final"
    /\ remaining' = duration
    /\ status' = "IDLE"
    /\ age' = MaxAge
    /\ Return
    /\ added' = 0 /\ owed' = 0 /\ early' = FALSE /\ clamped' = FALSE /\ resumed' = FALSE /\ sinceResume' = 0
    /\ UNCHANGED <<duration, stop_event, on_start, on_end, ctorVars, lockVars, threadVars, join_left, c_callbacks, svcVars>>
    /\ UNCHANGED <<op, timedOut, stoppedFrom, runVars, t_paused>>

Reset ==
    /\ ResetBegin("idle", <<"idle">>)
    /\ op' = "reset"
    /\ UNCHANGED svcVars

\* ------------------------------------------------------------ Timer.add_time
\* add_time() whose addition is overwritten by a concurrent writer
AddTimeBodyLost(extra) ==
    /\ added' = added + Max(extra, 0)
    /\ UNCHANGED <<remaining, owed>>

\* add_time() that adds whatever it is given
AddTimeBodyUnchecked(extra) ==
    /\ remaining' = remaining + extra
    /\ added' = added + extra
    /\ owed' = IF status \in {"RUNNING", "PAUSED"} THEN owed + extra ELSE owed

\* if extra <= timedelta(0): return; with self._lock: self._remaining += extra
AddTimeBody(extra) ==
    IF extra <= 0
    THEN UNCHANGED <<remaining, added, owed>>
    ELSE /\ remaining' = remaining + extra
         /\ added' = added + extra
         /\ owed' = IF status \in {"RUNNING", "PAUSED"} THEN owed + extra ELSE owed

\* add_time(extra)
AddTimeCall(extra) ==
    /\ cpc = "idle"
    /\ added + extra <= MaxAdds * ExtraSeconds
    /\ AddTimeBody(extra)
    /\ op' = "add_time"
    /\ UNCHANGED <<duration, status, stop_event, age, on_start, on_end, ctorVars, lockVars>>
    /\ UNCHANGED <<threadVars, ctlVars, svcVars>>
    /\ UNCHANGED <<timedOut, stoppedFrom, runVars, early, clamped, t_paused, resumed, sinceResume>>

AddTime == \E extra \in ExtraArgs : AddTimeCall(extra)

\* ------------------------------------------------------------ Timer._run
\* while not self._stop_event.is_set(): callbacks = None; if self.status == TimerStatus.RUNNING
\* (the status is read without the lock)
T_Loop ==
    /\ tpc = "loop"
    /\ tpc' = IF stop_event THEN "dead" ELSE IF status = "RUNNING" THEN "clock" ELSE "wait"
    /\ t_callbacks' = None
    /\ t_paused' = 0
    /\ UNCHANGED <<timerVars, ctorVars, lockVars, t_lag, ctlVars, svcVars>>
    /\ UNCHANGED <<op, timedOut, stoppedFrom, added, runVars, owed, early, clamped, resumed, sinceResume>>

\* now = time.monotonic()
T_ReadClock ==
    /\ tpc = "clock"
    /\ t_lag' = 0
    /\ tpc' = "lock"
    /\ UNCHANGED <<timerVars, ctorVars, lockVars, t_callbacks, ctlVars, svcVars, histVars>>

\* the delta with its operands exchanged
DeltaSwapped == t_lag - age

\* delta = now - self._last_update_monotonic
Delta == age - t_lag

\* a finish that leaves remaining where the subtraction put it
ClampKept(r) == r

\* self._remaining = timedelta(0), in the lock section that sets FINISHED
Clamp(r) == 0

\* a loop that never takes the branch of the clamp
RunFinishesNever(r) == FALSE

\* _run(): if self._remaining <= timedelta(0)
RunFinishes(r) == r <= 0

\* with self._lock: the update of the anchor and of _remaining, the clamp and the change to FINISHED
T_Update ==
    /\ tpc = "lock"
    /\ lock = "free"
    /\ lock' = WithExit("timer")
    /\ IF Delta >= Resolution
       THEN /\ age' = t_lag
            /\ IF RunFinishes(remaining - Delta)
               THEN /\ remaining' = Clamp(remaining - Delta)
                    /\ status' = "FINISHED"
                    /\ t_callbacks' = on_end
                    /\ early' = (owed > 0) /\ owed' = 0
                    /\ clamped' = (remaining - Delta < 0)
               ELSE /\ remaining' = remaining - Delta
                    /\ UNCHANGED <<status, t_callbacks, early, clamped, owed>>
            /\ decBy' = decBy \cup {"timer"}
            /\ resumed' = FALSE /\ sinceResume' = 0
       ELSE UNCHANGED <<age, remaining, status, t_callbacks, early, clamped, owed, decBy, resumed, sinceResume>>
    /\ tpc' = "finished"
    /\ t_lag' = 0
    /\ t_paused' = 0
    /\ UNCHANGED <<duration, stop_event, on_start, on_end, ctorVars, unlocked, ctlVars, svcVars>>
    /\ UNCHANGED <<op, timedOut, stoppedFrom, added, startCount, endCount, log>>

\* if self.status == TimerStatus.FINISHED: if callbacks: self._notify(callbacks); break
\* otherwise on to the wait
T_CheckFinished ==
    /\ tpc = "finished"
    /\ IF status = "FINISHED"
       THEN IF t_callbacks # None /\ Len(t_callbacks) > 0
            THEN /\ NotifyCanRun(t_callbacks)
                 /\ tpc' = IF NotifyRaises(t_callbacks) THEN "failed" ELSE "notify"
                 /\ endCount' = Notified(endCount, t_callbacks)
                 /\ log' = log \o Logged("end", Snapshot(t_callbacks, on_end))
            ELSE /\ tpc' = "dead"
                 /\ UNCHANGED <<endCount, log>>
       ELSE /\ tpc' = "wait"
            /\ UNCHANGED <<endCount, log>>
    /\ UNCHANGED <<timerVars, ctorVars, lockVars, t_lag, t_callbacks, ctlVars, svcVars>>
    /\ UNCHANGED <<op, timedOut, stoppedFrom, added, startCount, decBy, clockVars>>

\* the on_end callbacks return; break
T_NotifyDone ==
    /\ tpc = "notify"
    /\ tpc' = "dead"
    /\ t_callbacks' = None
    /\ UNCHANGED <<timerVars, ctorVars, lockVars, t_lag, ctlVars, svcVars, histVars>>

\* a wait that sleeps the timeout out and reports that the event was not set
WaitWokenNever == FALSE

\* self._stop_event.wait(timeout=...) returns True: the event is set
WaitWoken == stop_event

\* if self._stop_event.wait(timeout=self._resolution_seconds): break
\* The timeout is shorter than a step of the clock, so the wait may end at any moment.
T_Wait ==
    /\ tpc = "wait"
    /\ tpc' = IF WaitWoken THEN "dead" ELSE "loop"
    /\ UNCHANGED <<timerVars, ctorVars, lockVars, t_lag, t_callbacks, ctlVars, svcVars, histVars>>

TimerThread ==
    \/ T_Loop
    \/ T_ReadClock
    \/ T_Update
    \/ T_CheckFinished
    \/ T_NotifyDone
    \/ T_Wait

\* ------------------------------------------------------------ the clock
\* One second passes.
Advance ==
    /\ tpc = "lock" => t_lag < MaxLag
    /\ age' = Min(age + 1, MaxAge)
    /\ t_lag' = IF tpc = "lock" THEN t_lag + 1 ELSE t_lag
    /\ join_left' = IF cpc \in {"join", "svc_join"} THEN Max(join_left - 1, 0) ELSE join_left
    /\ s_wait' = IF spc = "wait" THEN Max(s_wait - 1, 0) ELSE s_wait
    /\ owed' = IF status = "RUNNING" THEN Max(owed - 1, 0) ELSE owed
    /\ t_paused' = IF status = "PAUSED" /\ tpc = "clock" THEN Min(t_paused + 1, MaxLag) ELSE t_paused
    /\ sinceResume' = IF resumed THEN Min(sinceResume + 1, MaxAge) ELSE sinceResume
    /\ <<age, t_lag, join_left, s_wait, owed, t_paused, sinceResume>>
         # <<age, t_lag, join_left, s_wait, owed, t_paused, sinceResume>>'
    /\ UNCHANGED <<duration, status, remaining, stop_event, on_start, on_end, ctorVars, lockVars>>
    /\ UNCHANGED <<tpc, t_callbacks, cpc, cstack, c_callbacks, spc, svc_stop, s_callbacks>>
    /\ UNCHANGED <<op, timedOut, stoppedFrom, added, runVars, early, clamped, resumed>>

\* ------------------------------------------------------------ Timer.tick, called by the service thread
\* tick(): if self.status != TimerStatus.RUNNING: return (read without the lock)
S_TickCheck ==
    /\ spc = "tick"
    /\ s_callbacks' = None
    /\ spc' = IF status # "RUNNING" THEN "after" ELSE "tick_lock"
    /\ UNCHANGED <<timerVars, ctorVars, lockVars, threadVars, ctlVars, svc_stop, s_wait, histVars>>

\* tick(): with self._lock: the decrement, the clamp and the change to FINISHED
S_TickLock ==
    /\ spc = "tick_lock"
    /\ lock = "free"
    /\ lock' = WithExit("service")
    /\ IF remaining - TickSeconds <= 0
       THEN /\ remaining' = Clamp(remaining - TickSeconds)
            /\ status' = "FINISHED"
            /\ s_callbacks' = on_end
            /\ early' = (owed > 0) /\ owed' = 0
            /\ clamped' = (remaining - TickSeconds < 0)
       ELSE /\ remaining' = remaining - TickSeconds
            /\ UNCHANGED <<status, s_callbacks, early, clamped, owed>>
    /\ spc' = "tick_notify"
    /\ decBy' = decBy \cup {"service"}
    /\ UNCHANGED <<duration, stop_event, age, on_start, on_end, ctorVars, unlocked, threadVars, ctlVars, svc_stop, s_wait>>
    /\ UNCHANGED <<op, timedOut, stoppedFrom, added, startCount, endCount, log, t_paused, resumed, sinceResume>>

\* tick(): if finished_callbacks is not None: self._notify(finished_callbacks)
S_TickNotify ==
    /\ spc = "tick_notify"
    /\ s_callbacks # None => NotifyCanRun(s_callbacks)
    /\ endCount' = IF s_callbacks # None THEN Notified(endCount, s_callbacks) ELSE endCount
    /\ log' = IF s_callbacks # None THEN log \o Logged("end", Snapshot(s_callbacks, on_end)) ELSE log
    /\ s_callbacks' = None
    /\ spc' = IF s_callbacks # None /\ NotifyRaises(s_callbacks) THEN "dead" ELSE "after"
    /\ UNCHANGED <<timerVars, ctorVars, lockVars, threadVars, ctlVars, svc_stop, s_wait>>
    /\ UNCHANGED <<op, timedOut, stoppedFrom, added, startCount, decBy, clockVars>>

\* ------------------------------------------------------------ TimerService._run_timer
\* while not stop_event.is_set(): if timer.status == TimerStatus.RUNNING: timer.tick(seconds=1)
\* otherwise on to the wait
S_Loop ==
    /\ spc = "loop"
    /\ IF svc_stop
       THEN spc' = "dead" /\ UNCHANGED s_wait
       ELSE IF status = "RUNNING"
            THEN spc' = "tick" /\ UNCHANGED s_wait
            ELSE spc' = "wait" /\ s_wait' = SvcWait
    /\ UNCHANGED <<timerVars, ctorVars, lockVars, threadVars, ctlVars, svc_stop, s_callbacks, histVars>>

\* if timer.status == TimerStatus.FINISHED: break
S_CheckFinished ==
    /\ spc = "after"
    /\ IF status = "FINISHED"
       THEN spc' = "dead" /\ UNCHANGED s_wait
       ELSE spc' = "wait" /\ s_wait' = SvcWait
    /\ UNCHANGED <<timerVars, ctorVars, lockVars, threadVars, ctlVars, svc_stop, s_callbacks, histVars>>

\* stop_event.wait(timeout=1.0) ends when the event is set or a second has passed
S_Wait ==
    /\ spc = "wait"
    /\ svc_stop \/ s_wait = 0
    /\ spc' = "loop"
    /\ s_wait' = 0
    /\ UNCHANGED <<timerVars, ctorVars, lockVars, threadVars, ctlVars, svc_stop, s_callbacks, histVars>>

ServiceThread ==
    \/ S_Loop
    \/ S_TickCheck
    \/ S_TickLock
    \/ S_TickNotify
    \/ S_CheckFinished
    \/ S_Wait

\* ------------------------------------------------------------ TimerService operations
\* start_timer(name): the liveness check, the clear of the event and the lock section of timer.start()
SvcStartTimer ==
    /\ cpc = "idle"
    /\ op' = "start_timer"
    /\ IF SvcAlive
       THEN UNCHANGED <<timerVars, ctorVars, lockVars, threadVars, ctlVars, svc_stop, timedOut, stoppedFrom, added, runVars, clockVars>>
       ELSE /\ svc_stop' = FALSE
            /\ StartLock("idle", <<"svc_spawn">>)
    /\ UNCHANGED <<spc, s_wait, s_callbacks>>

\* start_timer(name): thread = threading.Thread(target=self._run_timer, ...); thread.start()
SvcSpawn ==
    /\ cpc = "svc_spawn"
    /\ cpc' = "idle"
    /\ spc' = "loop"
    /\ UNCHANGED <<timerVars, ctorVars, lockVars, threadVars, cstack, join_left, c_callbacks, svc_stop, s_wait, s_callbacks, histVars>>

\* stop_timer(name): the liveness check, the set of the event and the lock section of timer.stop()
SvcStopLock(from, rets) ==
    /\ cpc = from
    /\ IF ~SvcAlive
       THEN /\ Skip(rets)
            /\ UNCHANGED <<timerVars, ctorVars, lockVars, threadVars, join_left, c_callbacks, svc_stop>>
            /\ UNCHANGED <<timedOut, stoppedFrom, added, runVars, clockVars>>
       ELSE /\ svc_stop' = TRUE
            /\ StopLock(from, <<"svc_stopped">> \o rets)
    /\ UNCHANGED <<spc, s_wait, s_callbacks>>

SvcStopTimer ==
    /\ SvcStopLock("idle", <<"idle">>)
    /\ op' = "stop_timer"

\* stop_timer(name): self._threads[name].join(timeout=2.0) begins
SvcJoinBegin ==
    /\ cpc = "svc_stopped"
    /\ cpc' = "svc_join"
    /\ join_left' = JoinTimeout
    /\ UNCHANGED <<timerVars, ctorVars, lockVars, threadVars, cstack, c_callbacks, svcVars, histVars>>

\* stop_timer(name): the join returns when the service thread has exited or the timeout has passed
SvcJoin ==
    /\ cpc = "svc_join"
    /\ spc = "dead" \/ join_left = 0
    /\ join_left' = 0
    /\ Return
    /\ UNCHANGED <<timerVars, ctorVars, lockVars, threadVars, c_callbacks, svcVars, histVars>>

\* pause_or_resume_timer(name)
SvcPauseOrResume ==
    /\ cpc = "idle"
    /\ IF status = "PAUSED" THEN ResumeBody ELSE PauseBody
    /\ op' = "pause_or_resume_timer"
    /\ UNCHANGED <<duration, remaining, stop_event, on_start, on_end, ctorVars, lockVars>>
    /\ UNCHANGED <<threadVars, ctlVars, svcVars, timedOut, stoppedFrom, added, runVars, owed, early, clamped>>

\* reset_timer(name): stop_timer(name) if the service thread is alive
SvcResetTimer ==
    /\ op' = "reset_timer"
    /\ IF SvcAlive
       THEN SvcStopLock("idle", <<"svc_reset">>)
       ELSE /\ cpc = "idle"
            /\ cpc' = "svc_reset"
            /\ UNCHANGED <<timerVars, ctorVars, lockVars, threadVars, cstack, join_left, c_callbacks, svcVars>>
            /\ UNCHANGED <<timedOut, stoppedFrom, added, runVars, clockVars>>

\* reset_timer(name): timer.reset()
SvcResetCall ==
    /\ ResetBegin("svc_reset", <<"idle">>)
    /\ UNCHANGED <<svcVars, op>>

\* ------------------------------------------------------------ Timer.tick, called by the control thread
\* tick(): if self.status != TimerStatus.RUNNING: return (read without the lock)
Tick ==
    /\ cpc = "idle"
    /\ op' = "tick"
    /\ IF status # "RUNNING"
       THEN UNCHANGED <<cpc, cstack>>
       ELSE Call("tick_lock", <<"idle">>)
    /\ UNCHANGED <<timerVars, ctorVars, lockVars, threadVars, join_left, c_callbacks, svcVars>>
    /\ UNCHANGED <<timedOut, stoppedFrom, added, runVars, clockVars>>

\* a test that lets a Timer with no time left go on
TickFinishesBelow(r) == r < 0

\* tick(): if self._remaining <= timedelta(0)
TickFinishes(r) == r <= 0

\* tick(seconds=n): with self._lock: the decrement, the clamp and the change to FINISHED.
\* The argument is not read before this point and is drawn here.
TickLockBy(n) ==
    /\ cpc = "tick_lock"
    /\ lock = "free"
    /\ lock' = WithExit("ctl")
    /\ IF TickFinishes(remaining - n)
       THEN /\ remaining' = Clamp(remaining - n)
            /\ status' = "FINISHED"
            /\ c_callbacks' = on_end
            /\ early' = (owed > 0) /\ owed' = 0
            /\ clamped' = (remaining - n < 0)
       ELSE /\ remaining' = remaining - n
            /\ UNCHANGED <<status, c_callbacks, early, clamped, owed>>
    /\ cpc' = "tick_notify"
    /\ decBy' = decBy \cup {"control"}
    /\ UNCHANGED <<duration, stop_event, age, on_start, on_end, ctorVars, unlocked, threadVars, cstack, join_left, svcVars>>
    /\ UNCHANGED <<op, timedOut, stoppedFrom, added, startCount, endCount, log, t_paused, resumed, sinceResume>>

TickLock == \E n \in 1..MaxTick : TickLockBy(n)

\* tick(): if finished_callbacks is not None: self._notify(finished_callbacks)
TickNotify ==
    /\ cpc = "tick_notify"
    /\ c_callbacks # None => NotifyCanRun(c_callbacks)
    /\ endCount' = IF c_callbacks # None THEN Notified(endCount, c_callbacks) ELSE endCount
    /\ log' = IF c_callbacks # None THEN log \o Logged("end", Snapshot(c_callbacks, on_end)) ELSE log
    /\ raised' = IF c_callbacks # None /\ NotifyRaises(c_callbacks) THEN "callback" ELSE raised
    /\ c_callbacks' = None
    /\ Return
    /\ UNCHANGED <<timerVars, ctxVars, created, lockVars, threadVars, join_left, svcVars>>
    /\ UNCHANGED <<op, timedOut, stoppedFrom, added, startCount, decBy, clockVars>>

\* ------------------------------------------------------------ Timer._run, the failure path
\* A statement inside the try block raises an exception
T_Raise ==
    /\ tpc \in {"loop", "clock", "lock", "finished", "wait"}
    /\ tpc' = "failed"
    /\ t_lag' = 0
    /\ UNCHANGED <<timerVars, ctorVars, lockVars, t_callbacks, ctlVars, svcVars, histVars>>

\* except Exception as e: self.status = TimerStatus.STOPPED (without the lock); the thread ends
T_Fail ==
    /\ tpc = "failed"
    /\ status' = "STOPPED"
    /\ unlocked' = TRUE
    /\ tpc' = "dead"
    /\ t_callbacks' = None
    /\ UNCHANGED <<duration, remaining, stop_event, age, on_start, on_end, ctorVars, lock>>
    /\ UNCHANGED <<t_lag, ctlVars, svcVars, histVars>>

\* The handler's write does not take the lock, so it can fall inside a lock
\* section of the control thread.  pause() has tested the status and found
\* RUNNING; the handler writes STOPPED and the thread ends; pause() then
\* assigns PAUSED over it.
T_FailDuringPause ==
    /\ tpc = "failed"
    /\ cpc = "idle"
    /\ status = "RUNNING"
    /\ PauseBody
    /\ op' = "pause"
    /\ unlocked' = TRUE
    /\ tpc' = "dead"
    /\ t_callbacks' = None
    /\ UNCHANGED <<duration, remaining, stop_event, on_start, on_end, ctorVars, lock>>
    /\ UNCHANGED <<t_lag, ctlVars, svcVars, timedOut, stoppedFrom, added, runVars, owed, early, clamped>>

\* resume() has tested the status and found PAUSED; the handler writes STOPPED
\* and the thread ends; resume() then assigns RUNNING over it.
T_FailDuringResume ==
    /\ tpc = "failed"
    /\ cpc = "idle"
    /\ status = "PAUSED"
    /\ ResumeBody
    /\ op' = "resume"
    /\ unlocked' = TRUE
    /\ tpc' = "dead"
    /\ t_callbacks' = None
    /\ UNCHANGED <<duration, remaining, stop_event, on_start, on_end, ctorVars, lock>>
    /\ UNCHANGED <<t_lag, ctlVars, svcVars, timedOut, stoppedFrom, added, runVars, owed, early, clamped>>

\* ------------------------------------------------------------ a Timer used directly
Next ==
    \/ Start
    \/ StartNotify
    \/ Pause
    \/ Resume
    \/ Stop
    \/ StopJoin
    \/ Reset
    \/ ResetStop
    \/ ResetFinal
    \/ AddTime
    \/ TimerThread
    \/ Advance

Spec == Init /\ [][Next]_vars

\* ------------------------------------------------------------ a Timer that is ticked by hand and given time
\* The Timer is started, ticked by hand, given extra time and reset while its
\* own loop runs.
CountNext ==
    \/ Start
    \/ StartNotify
    \/ Reset
    \/ ResetStop
    \/ StopJoin
    \/ ResetFinal
    \/ AddTime
    \/ Tick
    \/ TickLock
    \/ TickNotify
    \/ TimerThread
    \/ Advance

CountSpec == Init /\ [][CountNext]_vars

\* ------------------------------------------------------------ a Timer used directly and ticked by hand
TickNext ==
    \/ Start
    \/ StartNotify
    \/ Pause
    \/ Resume
    \/ Stop
    \/ StopJoin
    \/ Tick
    \/ TickLock
    \/ TickNotify
    \/ TimerThread
    \/ Advance

TickSpec == Init /\ [][TickNext]_vars

\* ------------------------------------------------------------ a Timer from its construction on
\* The constructor is called with any argument; a Timer that was returned is
\* started, paused and resumed and runs.
CtorNext ==
    \/ Construct
    \/ Start
    \/ StartNotify
    \/ Pause
    \/ Resume
    \/ TimerThread
    \/ Advance

CtorSpec == CtorInit /\ [][CtorNext]_vars

\* ------------------------------------------------------------ a Timer with several callbacks
\* The Timer carries lists of callbacks of which some raise and some re-enter
\* the Timer; it is started, ticked by hand, stopped and runs.
CbNext ==
    \/ Start
    \/ StartNotify
    \/ Stop
    \/ StopJoin
    \/ Tick
    \/ TickLock
    \/ TickNotify
    \/ TimerThread
    \/ Advance

CbSpec == CbInit /\ [][CbNext]_vars

\* ------------------------------------------------------------ a Timer whose loop may fail
\* The Timer is used directly and a statement of the loop may raise.
FaultNext ==
    \/ Start
    \/ StartNotify
    \/ Pause
    \/ Resume
    \/ Stop
    \/ StopJoin
    \/ TimerThread
    \/ T_Raise
    \/ T_Fail
    \/ T_FailDuringPause
    \/ T_FailDuringResume
    \/ Advance

FaultSpec == Init /\ [][FaultNext]_vars

\* ------------------------------------------------------------ callbacks registered while the Timer runs
\* timer.on_start.append(cb), timer.on_end.append(cb) by any thread, at any
\* moment; the handle "late" returns like "cb"
AppendOnStart ==
    /\ \A i \in 1..Len(on_start) : on_start[i] # "late"
    /\ on_start' = Append(on_start, "late")
    /\ UNCHANGED <<duration, status, remaining, stop_event, age, on_end>>
    /\ UNCHANGED <<ctorVars, lockVars, threadVars, ctlVars, svcVars, histVars>>

AppendOnEnd ==
    /\ \A i \in 1..Len(on_end) : on_end[i] # "late"
    /\ on_end' = Append(on_end, "late")
    /\ UNCHANGED <<duration, status, remaining, stop_event, age, on_start>>
    /\ UNCHANGED <<ctorVars, lockVars, threadVars, ctlVars, svcVars, histVars>>

AppendNext ==
    \/ Start
    \/ StartNotify
    \/ AppendOnStart
    \/ AppendOnEnd
    \/ Tick
    \/ TickLock
    \/ TickNotify
    \/ TimerThread
    \/ Advance

AppendSpec == Init /\ [][AppendNext]_vars

\* ------------------------------------------------------------ a Timer that is stopped
\* The Timer is used directly; its thread is scheduled again and again.
StopNext ==
    \/ Start
    \/ StartNotify
    \/ Pause
    \/ Resume
    \/ Stop
    \/ StopJoin
    \/ TimerThread
    \/ Advance

StopSpec ==
    /\ Init
    /\ [][StopNext]_vars
    /\ WF_vars(TimerThread)

\* ------------------------------------------------------------ a Timer that is used again
\* The Timer is started, stopped, reset and started again.  The clock
\* advances, the Timer's thread is scheduled and the control thread comes
\* back from a join that can return and goes on inside reset().
ReuseNext ==
    \/ Start
    \/ StartNotify
    \/ Stop
    \/ StopJoin
    \/ Reset
    \/ ResetStop
    \/ ResetFinal
    \/ TimerThread
    \/ Advance

ReuseSpec ==
    /\ Init
    /\ [][ReuseNext]_vars
    /\ WF_vars(TimerThread)
    /\ WF_vars(Advance)
    /\ WF_vars(StopJoin)
    /\ WF_vars(ResetStop \/ ResetFinal)

\* ------------------------------------------------------------ a Timer whose callbacks may never return
\* The Timer is used directly.  Time passes, the control thread comes back
\* from a join that can return, and the Timer's thread is scheduled, except
\* that an on_end callback it has entered may never return.
JoinSpec ==
    /\ Init
    /\ [][StopNext]_vars
    /\ WF_vars(Advance)
    /\ WF_vars(StopJoin)
    /\ WF_vars(T_Loop \/ T_ReadClock \/ T_Update \/ T_CheckFinished \/ T_Wait)

\* ------------------------------------------------------------ a Timer driven through the TimerService
SvcNext ==
    \/ SvcStartTimer
    \/ StartNotify
    \/ SvcSpawn
    \/ SvcStopTimer
    \/ StopJoin
    \/ SvcJoinBegin
    \/ SvcJoin
    \/ SvcPauseOrResume
    \/ SvcResetTimer
    \/ SvcResetCall
    \/ ResetStop
    \/ ResetFinal
    \/ AddTime
    \/ TimerThread
    \/ ServiceThread
    \/ Advance

SvcSpec == Init /\ [][SvcNext]_vars

\* ------------------------------------------------------------ a Timer left to run
\* The Timer is started, directly or through the service, and no other
\* operation is called.  The clock advances and both threads are scheduled.
LiveNext ==
    \/ Start
    \/ SvcStartTimer
    \/ StartNotify
    \/ SvcSpawn
    \/ TimerThread
    \/ ServiceThread
    \/ Advance

LiveSpec ==
    /\ Init
    /\ [][LiveNext]_vars
    /\ WF_vars(TimerThread)
    /\ WF_vars(ServiceThread)
    /\ WF_vars(Advance)

\* ============================================================ the catalog of the TimerService
\* The service keeps its Timers by name.  Here every Timer is a record and an
\* operation of a Timer, or one iteration of a loop, is a single step: the
\* races inside one Timer are the subject of the specifications above, the
\* catalog is about which Timer an operation reaches.  Time is not measured:
\* an iteration of Timer._run finds that any number of whole seconds has
\* passed since _last_update_monotonic, and a join or a wait with a timeout
\* may return because its timeout has passed at any step.

MaxCreate == 1          \* create_timer is called with durations up to MaxCreate seconds

\* create_timer(name, d) is called with d in CreateArgs
CreateArgs == 0..MaxCreate
\* an iteration of Timer._run finds that 1..MaxHeld seconds have passed
MaxHeld == MaxCreate

\* name in self._timers
Has(n) == timers[n].id # 0

\* the identity of a Timer that is constructed now: that of no Timer of the catalog
FreshId == CHOOSE i \in 1..(Cardinality(Names) + 1) : \A m \in Names : timers[m].id # i

\* Timer(duration=d) as the id-th Timer of the service
TimerNew(id, d) ==
    [id |-> id, duration |-> NewTimer(d).duration, status |-> NewTimer(d).status,
     remaining |-> NewTimer(d).remaining, stop_event |-> FALSE, thread |-> "none"]

\* self._thread is not None and self._thread.is_alive()
TimerAlive(t) == t.thread = "alive"

\* timer.start(): the lock section
TimerStart(t) ==
    IF TimerAlive(t) \/ t.status \in {"RUNNING", "PAUSED"}
    THEN t
    ELSE [t EXCEPT !.stop_event = FALSE, !.status = "RUNNING", !.thread = "alive"]

\* timer.pause()
TimerPause(t) == IF t.status = "RUNNING" THEN [t EXCEPT !.status = "PAUSED"] ELSE t

\* timer.resume()
TimerResume(t) == IF t.status = "PAUSED" THEN [t EXCEPT !.status = "RUNNING"] ELSE t

\* timer.stop(): the lock section
TimerStop(t) == IF TimerAlive(t) THEN [t EXCEPT !.stop_event = TRUE, !.status = "STOPPED"] ELSE t

\* timer.reset(): the lock section
TimerReset(t) == [t EXCEPT !.remaining = t.duration, !.status = "IDLE"]

\* timer.add_time(extra)
TimerAddTime(t, extra) == IF extra <= 0 THEN t ELSE [t EXCEPT !.remaining = @ + extra]

\* timer.tick(seconds=n)
TimerTick(t, n) ==
    IF t.status # "RUNNING" THEN t
    ELSE IF TickFinishes(t.remaining - n)
         THEN [t EXCEPT !.remaining = 0, !.status = "FINISHED"]
         ELSE [t EXCEPT !.remaining = @ - n]

\* the lock section of one iteration of Timer._run that finds now - _last_update_monotonic = delta
TimerUpdate(t, delta) ==
    IF delta < Resolution THEN t
    ELSE IF RunFinishes(t.remaining - delta)
         THEN [t EXCEPT !.remaining = 0, !.status = "FINISHED"]
         ELSE [t EXCEPT !.remaining = @ - delta]

\* one iteration of Timer._run: the loop condition, the update, the exits
TimerRun(t, delta) ==
    IF t.stop_event THEN [t EXCEPT !.thread = "dead"]
    ELSE IF t.status = "RUNNING"
         THEN IF TimerUpdate(t, delta).status = "FINISHED"
              THEN [TimerUpdate(t, delta) EXCEPT !.thread = "dead"]
              ELSE TimerUpdate(t, delta)
         ELSE t

\* name in self._threads and self._threads[name].is_alive()
ServiceAlive(n) == threads[n] = "alive"

\* A call of the service begins: the control thread is between two calls.
\* `name` is the argument of a call that is waiting in a join, "-" otherwise.
Called(o) == cpc = "idle" /\ op' = o

\* a lookup failure that is logged and not raised
RaiseSwallowed(error) ==
    /\ raised' = "none"
    /\ ret' = Absent
    /\ UNCHANGED <<timers, threads, stop_events, name, cpc, cstack>>

\* raise ValueError(...): nothing of the service or of a Timer has changed
Raise(error) ==
    /\ raised' = error
    /\ ret' = Absent
    /\ UNCHANGED <<timers, threads, stop_events, name, cpc, cstack>>

\* a call returns `value` to the control thread
Returned(value) == raised' = "none" /\ ret' = [id |-> value]

\* what the catalog never touches: the Timer that is used on its own
soloVars == <<timerVars, arg, created, lockVars, threadVars, svcVars, c_callbacks, join_left, extVars>>
soloHist == <<timedOut, stoppedFrom, added, runVars, clockVars>>

\* get_timer(name)
GetTimer(n) ==
    /\ Called("get_timer")
    /\ Returned(timers[n].id)
    /\ UNCHANGED <<timers, threads, stop_events, name, cpc, cstack>>
    /\ UNCHANGED <<soloVars, soloHist>>

\* a create_timer that registers the Timer before it looks the name up
CreateTimerExistsNever(n) == FALSE

\* create_timer: name in self._timers
CreateTimerExists(n) == Has(n)

\* create_timer(name, duration)
CreateTimer(n, d) ==
    /\ Called("create_timer")
    /\ IF CreateTimerExists(n)
       THEN Raise("ValueError: exists")
       ELSE IF ~ValidatePositive(d)
            THEN Raise("ValueError")
            ELSE /\ timers' = [timers EXCEPT ![n] = TimerNew(FreshId, d)]
                 /\ stop_events' = [stop_events EXCEPT ![n] = "clear"]
                 /\ Returned(FreshId)
                 /\ UNCHANGED <<threads, name, cpc, cstack>>
    /\ UNCHANGED <<soloVars, soloHist>>

\* a remove_timer that refuses a RUNNING Timer only
RemoveRefusedRunning(t) == t.status = "RUNNING"

\* remove_timer: the Timer is still active
RemoveRefused(t) == t.status \in {"RUNNING", "PAUSED"}

\* remove_timer(name): the Timer is taken out of the catalog unless it is RUNNING or PAUSED
RemoveTimer(n) ==
    /\ Called("remove_timer")
    /\ IF ~Has(n)
       THEN Raise("ValueError: not found")
       ELSE IF RemoveRefused(timers[n])
            THEN Raise("ValueError: still active")
            ELSE /\ timers' = [timers EXCEPT ![n] = Absent]
                 /\ threads' = [threads EXCEPT ![n] = "none"]
                 /\ stop_events' = [stop_events EXCEPT ![n] = "none"]
                 /\ Returned(Absent.id)
                 /\ UNCHANGED <<name, cpc, cstack>>
    /\ UNCHANGED <<soloVars, soloHist>>

\* start_timer(name)
StartTimer(n) ==
    /\ Called("start_timer")
    /\ IF ~Has(n)
       THEN Raise("ValueError: not found")
       ELSE /\ Returned(Absent.id)
            /\ IF ServiceAlive(n)
               THEN UNCHANGED <<timers, threads, stop_events>>
               ELSE /\ stop_events' = [stop_events EXCEPT ![n] = "clear"]
                    /\ timers' = [timers EXCEPT ![n] = TimerStart(@)]
                    /\ threads' = [threads EXCEPT ![n] = "alive"]
            /\ UNCHANGED <<name, cpc, cstack>>
    /\ UNCHANGED <<soloVars, soloHist>>

\* a stop_timer that stops every Timer of the catalog
StopTimerFoundAll(n, rets) ==
    IF ~ServiceAlive(n)
    THEN /\ Skip(rets)
         /\ name' = IF Head(rets) = "idle" THEN "-" ELSE n
         /\ UNCHANGED <<timers, threads, stop_events>>
    ELSE /\ name' = n
         /\ stop_events' = [stop_events EXCEPT ![n] = "set"]
         /\ timers' = [m \in Names |-> IF Has(m) THEN TimerStop(timers[m]) ELSE timers[m]]
         /\ IF TimerAlive(timers[n])
            THEN Call("timer_join", <<"service_join">> \o rets)
            ELSE Call("service_join", rets)
         /\ UNCHANGED threads

\* stop_timer(name) after the lookup: the liveness check, the two events, then
\* the join inside timer.stop() and the join of the service's thread
StopTimerFound(n, rets) ==
    IF ~ServiceAlive(n)
    THEN /\ Skip(rets)
         /\ name' = IF Head(rets) = "idle" THEN "-" ELSE n
         /\ UNCHANGED <<timers, threads, stop_events>>
    ELSE /\ name' = n
         /\ stop_events' = [stop_events EXCEPT ![n] = "set"]
         /\ timers' = [timers EXCEPT ![n] = TimerStop(@)]
         /\ IF TimerAlive(timers[n])
            THEN Call("timer_join", <<"service_join">> \o rets)
            ELSE Call("service_join", rets)
         /\ UNCHANGED threads

\* stop_timer(name)
StopTimer(n) ==
    /\ Called("stop_timer")
    /\ IF ~Has(n)
       THEN Raise("ValueError: not found")
       ELSE /\ Returned(Absent.id)
            /\ StopTimerFound(n, <<"idle">>)
    /\ UNCHANGED <<soloVars, soloHist>>

\* thread.join(timeout=2.0) inside timer.stop() returns: the Timer's thread has exited, or not and the timeout has passed
TimerJoin ==
    /\ cpc = "timer_join"
    /\ Return
    /\ UNCHANGED name
    /\ UNCHANGED <<timers, threads, stop_events, ret, raised, op>>
    /\ UNCHANGED <<soloVars, soloHist>>

\* self._threads[name].join(timeout=2.0) returns
ServiceJoin ==
    /\ cpc = "service_join"
    /\ Return
    /\ name' = IF Head(cstack) = "idle" THEN "-" ELSE name
    /\ UNCHANGED <<timers, threads, stop_events, ret, raised, op>>
    /\ UNCHANGED <<soloVars, soloHist>>

\* pause_or_resume_timer(name)
PauseOrResumeTimer(n) ==
    /\ Called("pause_or_resume_timer")
    /\ IF ~Has(n)
       THEN Raise("ValueError: not found")
       ELSE /\ Returned(Absent.id)
            /\ timers' = [timers EXCEPT ![n] = IF @.status = "PAUSED" THEN TimerResume(@) ELSE TimerPause(@)]
            /\ UNCHANGED <<threads, stop_events, name, cpc, cstack>>
    /\ UNCHANGED <<soloVars, soloHist>>

\* reset_timer(name): stop_timer(name) if the service's thread is alive
ResetTimer(n) ==
    /\ Called("reset_timer")
    /\ IF ~Has(n)
       THEN Raise("ValueError: not found")
       ELSE /\ Returned(Absent.id)
            /\ StopTimerFound(n, <<"timer_reset">>)
    /\ UNCHANGED <<soloVars, soloHist>>

\* reset_timer(name): timer.reset() stops the Timer if its thread is alive
ResetTimerCall ==
    /\ cpc = "timer_reset"
    /\ IF TimerAlive(timers[name])
       THEN /\ timers' = [timers EXCEPT ![name] = TimerStop(@)]
            /\ cpc' = "timer_join"
            /\ cstack' = <<"timer_reset_final">> \o cstack
            /\ UNCHANGED name
       ELSE /\ timers' = [timers EXCEPT ![name] = TimerReset(@)]
            /\ cpc' = "idle"
            /\ name' = "-"
            /\ UNCHANGED cstack
    /\ UNCHANGED <<threads, stop_events, ret, raised, op>>
    /\ UNCHANGED <<soloVars, soloHist>>

\* reset_timer(name): the lock section of timer.reset() after its stop()
ResetTimerFinal ==
    /\ cpc = "timer_reset_final"
    /\ timers' = [timers EXCEPT ![name] = TimerReset(@)]
    /\ cpc' = "idle"
    /\ name' = "-"
    /\ UNCHANGED <<threads, stop_events, ret, raised, op, cstack>>
    /\ UNCHANGED <<soloVars, soloHist>>

\* add_time(name, duration); the model adds no time beyond the Timer's duration
AddTimeTo(n, extra) ==
    /\ Called("add_time")
    /\ IF ~Has(n)
       THEN Raise("ValueError: not found")
       ELSE /\ TimerAddTime(timers[n], extra).remaining <= timers[n].duration
            /\ Returned(Absent.id)
            /\ timers' = [timers EXCEPT ![n] = TimerAddTime(@, extra)]
            /\ UNCHANGED <<threads, stop_events, name, cpc, cstack>>
    /\ UNCHANGED <<soloVars, soloHist>>

\* The background thread of the Timer registered as n runs one iteration of Timer._run
RunOf(n, delta) ==
    /\ Has(n)
    /\ TimerAlive(timers[n])
    /\ timers' = [timers EXCEPT ![n] = TimerRun(@, delta)]
    /\ timers' # timers
    /\ UNCHANGED <<threads, stop_events, name, ret, raised, op, cpc, cstack>>
    /\ UNCHANGED <<soloVars, soloHist>>

\* _run_timer(name): one iteration
RunTimer(n) ==
    /\ ServiceAlive(n)
    /\ IF stop_events[n] = "set"
       THEN /\ threads' = [threads EXCEPT ![n] = "dead"]
            /\ UNCHANGED timers
       ELSE /\ timers[n].status = "RUNNING"
            /\ timers' = [timers EXCEPT ![n] = TimerTick(@, TickSeconds)]
            /\ threads' = [threads EXCEPT ![n] =
                  IF TimerTick(timers[n], TickSeconds).status = "FINISHED" THEN "dead" ELSE "alive"]
    /\ UNCHANGED <<stop_events, name, ret, raised, op, cpc, cstack>>
    /\ UNCHANGED <<soloVars, soloHist>>

\* ------------------------------------------------------------ several Timers in one TimerService
\* TimerService() with an empty catalog; no Timer is used on its own
CatalogInit ==
    /\ arg = 0
    /\ created = FALSE /\ raised = "none"
    /\ Constructed(NoTimer, {<<>>}, {<<>>})
    /\ Quiet("idle")

CatalogNext ==
    \/ \E n \in Names : GetTimer(n)
    \/ \E n \in Names, d \in CreateArgs : CreateTimer(n, d)
    \/ \E n \in Names : RemoveTimer(n)
    \/ \E n \in Names : StartTimer(n)
    \/ \E n \in Names : StopTimer(n)
    \/ TimerJoin
    \/ ServiceJoin
    \/ \E n \in Names : PauseOrResumeTimer(n)
    \/ \E n \in Names : ResetTimer(n)
    \/ ResetTimerCall
    \/ ResetTimerFinal
    \/ \E n \in Names, extra \in ExtraArgs : AddTimeTo(n, extra)
    \/ \E n \in Names, delta \in 1..MaxHeld : RunOf(n, delta)
    \/ \E n \in Names : RunTimer(n)

CatalogSpec == CatalogInit /\ [][CatalogNext]_vars

\* ------------------------------------------------------------ Timer.get_progress
\* A float that is a quotient of two whole numbers of seconds is kept as the
\* fraction in lowest terms: two quotients are the same float exactly when
\* their fractions are the same, for numbers this small.
RECURSIVE Gcd(_, _)
Gcd(a, b) == IF b = 0 THEN a ELSE Gcd(b, a % b)

Abs(a) == IF a < 0 THEN 0 - a ELSE a

\* elapsed.total_seconds() / self.duration.total_seconds()
Quotient(n, d) ==
    LET g == Gcd(Abs(n), d)
    IN  [num |-> n \div g, den |-> d \div g]

\* the floats 0.0 and 1.0
Float0 == [num |-> 0, den |-> 1]
Float1 == [num |-> 1, den |-> 1]

FloatLess(x, y) == x.num * y.den < y.num * x.den

\* min(x, y) and max(x, y) of Python: the first argument unless the other is strictly beyond it
FloatMin(x, y) == IF FloatLess(y, x) THEN y ELSE x
FloatMax(x, y) == IF FloatLess(x, y) THEN y ELSE x

\* a quotient that is returned as it is
ClampedNot(x) == x

\* max(0.0, min(1.0, x))
Clamped(x) == FloatMax(Float0, FloatMin(Float1, x))

\* get_progress(): with self._lock: elapsed = self.duration - self._remaining;
\* the quotient is taken after the lock is released, of the local elapsed and
\* of duration, which no operation assigns
GetProgress ==
    /\ created
    /\ lock = "free"
    /\ LET elapsed == duration - remaining
       IN  ret' = Clamped(Quotient(elapsed, duration))
    /\ UNCHANGED <<arg, timers, threads, stop_events, name, created, raised, extVars>>
    /\ UNCHANGED <<timerVars, threadVars, ctlVars, svcVars, lockVars, histVars>>

\* The Timer is started, given extra time and reset while its own loop runs,
\* and its progress is read at any moment by any thread.
ProgressNext ==
    \/ Start
    \/ StartNotify
    \/ Reset
    \/ ResetStop
    \/ StopJoin
    \/ ResetFinal
    \/ AddTime
    \/ TimerThread
    \/ Advance
    \/ GetProgress

ProgressSpec == Init /\ [][ProgressNext]_vars

\* ------------------------------------------------------------ create_timer called from several control contexts
\* create_timer takes no lock: between `if name in self._timers` and
\* `self._timers[name] = timer` another context may run the same lines.

\* everything but the two dictionaries create_timer writes and the callers
raceFrame == <<timerVars, arg, created, raised, lockVars, threadVars, svcVars, ctlVars, histVars, threads, name, ret, legacy>>

\* the identity of a Timer that is constructed now: that of no Timer of the catalog or held by a caller
FreshObject ==
    CHOOSE i \in 1..(Cardinality(Names) + Cardinality(Callers) + 1) :
        /\ \A m \in Names : timers[m].id # i
        /\ \A c \in Callers : callers[c].got # i

\* create_timer(n, d) by context c: if name in self._timers: raise ValueError(...)
CreateTimerTest(c, n, d) ==
    /\ callers[c].pc # "insert"
    /\ callers' = [callers EXCEPT ![c] =
          IF CreateTimerExists(n)
          THEN [pc |-> "raised", name |-> n, d |-> d, got |-> 0]
          ELSE [pc |-> "insert", name |-> n, d |-> d, got |-> 0]]
    /\ UNCHANGED <<timers, stop_events, raceFrame>>

\* create_timer by context c, after the test: timer = Timer(duration=duration), which may raise;
\* self._timers[name] = timer; self._stop_events[name] = threading.Event(); return timer
CreateTimerInsert(c) ==
    /\ callers[c].pc = "insert"
    /\ IF ~ValidatePositive(callers[c].d)
       THEN /\ callers' = [callers EXCEPT ![c].pc = "raised"]
            /\ UNCHANGED <<timers, stop_events>>
       ELSE /\ timers' = [timers EXCEPT ![callers[c].name] = TimerNew(FreshObject, callers[c].d)]
            /\ stop_events' = [stop_events EXCEPT ![callers[c].name] = "clear"]
            /\ callers' = [callers EXCEPT ![c].pc = "returned", ![c].got = FreshObject]
    /\ UNCHANGED raceFrame

RaceNext ==
    \/ \E c \in Callers, n \in Names, d \in CreateArgs : CreateTimerTest(c, n, d)
    \/ \E c \in Callers : CreateTimerInsert(c)

RaceSpec == CatalogInit /\ [][RaceNext]_vars

\* ------------------------------------------------------------ a Timer driven through a TimerExecutor
\* TimerExecutor keeps one thread and one stop event for the Timer it wraps,
\* as TimerService keeps them for each name: spc is the position of
\* TimerExecutor._run, svc_stop is TimerExecutor._stop_event.  With the default
\* tick_interval of 1.0 the loop calls tick(seconds=1) and waits one second.
\* The executor's own lock is held by its single caller only.

\* start(): if the thread is alive: return; self._stop_event.clear(); self.timer.start()
ExecStart == SvcStartTimer

\* start(): self._thread = threading.Thread(target=self._run, daemon=True); self._thread.start()
ExecSpawn == SvcSpawn

\* stop(): if self._thread is None or not self._thread.is_alive(): return
\* self._stop_event.set(); self.timer.stop()
ExecStop == SvcStopTimer

\* stop(): self._thread.join(timeout=2.0) begins
ExecJoinBegin == SvcJoinBegin

\* stop(): the join returns when the thread of the executor has exited or the timeout has passed
ExecJoin == SvcJoin

\* _run(): while not stop: if RUNNING: tick(), if FINISHED: break; wait(tick_interval)
ExecRun == ServiceThread

\* stop(), or leaving the with block, has returned
ExecStopped == op = "stop_timer" /\ cpc = "idle"

\* __enter__ is start(), __exit__ is stop(); inside the block time passes and
\* both threads are scheduled
ExecNext ==
    \/ ExecStart
    \/ StartNotify
    \/ ExecSpawn
    \/ ExecStop
    \/ StopJoin
    \/ ExecJoinBegin
    \/ ExecJoin
    \/ TimerThread
    \/ ExecRun
    \/ Advance

ExecSpec == Init /\ [][ExecNext]_vars

\* ------------------------------------------------------------ the Timer of src/timer.py
\* A pydantic model with the fields duration, remaining, running and
\* stop_signal; start_timer spawns a thread that runs run().  No field is
\* guarded by a lock.  The sleeps are steps of the thread; time is not measured.

\* everything but the Timer of src/timer.py
legacyFrame == <<timerVars, threadVars, ctlVars, svcVars, arg, catVars, callers, created, raised, lockVars, histVars>>

\* bool(self.remaining): neither None nor a span of zero
LegacyRemainingTruthy == ~legacy.unset /\ legacy.remaining # 0

\* a thread running run() has not yet returned
LegacyAlive == \E t \in LegacyThreads : legacy.th[t].pc \notin {"none", "dead"}

\* start_timer() has spawned a thread
LegacyStarted == \E t \in LegacyThreads : legacy.th[t].pc # "none"

\* a thread that is not alive
LegacyFree == CHOOSE t \in LegacyThreads : legacy.th[t].pc \in {"none", "dead"}

\* Timer(duration=d): pydantic accepts any timedelta
LegacyNew(d) ==
    /\ ~legacy.made
    /\ legacy' = [NoLegacy EXCEPT !.made = TRUE, !.duration = d, !.op = "new"]
    /\ UNCHANGED legacyFrame

\* start_timer(): if self.running: return; self.running = True; self.stop_signal = False;
\* threading.Thread(target=self.run, daemon=False).start()
LegacyStartTimer ==
    /\ legacy.made /\ legacy.cpc = "idle"
    /\ IF legacy.running
       THEN legacy' = [legacy EXCEPT !.op = "start_timer"]
       ELSE /\ \E t \in LegacyThreads : legacy.th[t].pc \in {"none", "dead"}
            /\ legacy' = [legacy EXCEPT !.op = "start_timer", !.running = TRUE, !.stop_signal = FALSE,
                                        !.th[LegacyFree] = [pc |-> "begin", tmp |-> 0]]
    /\ UNCHANGED legacyFrame

\* run(): if self.remaining is None: self.remaining = self.duration
LegacyRunBegin(t) ==
    /\ legacy.th[t].pc = "begin"
    /\ legacy' = [legacy EXCEPT !.th[t].pc = "loop",
                                !.remaining = IF legacy.unset THEN legacy.duration ELSE @,
                                !.unset = FALSE]
    /\ UNCHANGED legacyFrame

\* run(): while self.remaining > timedelta(seconds=0) and not self.stop_signal: if self.running: ... else: ...
LegacyRunLoop(t) ==
    /\ legacy.th[t].pc = "loop"
    /\ legacy' = [legacy EXCEPT !.th[t].pc =
          IF legacy.remaining > 0 /\ ~legacy.stop_signal
          THEN IF legacy.running THEN "sleep_1" ELSE "sleep_01"
          ELSE "end"]
    /\ UNCHANGED legacyFrame

\* run(): sleep(1) returns and self.remaining is read for the subtraction;
\* or sleep(0.1) returns
LegacyRunSleep(t) ==
    /\ legacy.th[t].pc \in {"sleep_1", "sleep_01"}
    /\ legacy' = IF legacy.th[t].pc = "sleep_1"
                 THEN [legacy EXCEPT !.th[t] = [pc |-> "write", tmp |-> legacy.remaining]]
                 ELSE [legacy EXCEPT !.th[t].pc = "loop"]
    /\ UNCHANGED legacyFrame

\* run(): self.remaining -= timedelta(seconds=1), the assignment
LegacyRunWrite(t) ==
    /\ legacy.th[t].pc = "write"
    /\ legacy' = [legacy EXCEPT !.th[t] = [pc |-> "loop", tmp |-> 0], !.remaining = legacy.th[t].tmp - 1]
    /\ UNCHANGED legacyFrame

\* run(): after the loop, self.running = False
LegacyRunEnd(t) ==
    /\ legacy.th[t].pc = "end"
    /\ legacy' = [legacy EXCEPT !.th[t].pc = "dead", !.running = FALSE]
    /\ UNCHANGED legacyFrame

LegacyRun ==
    \E t \in LegacyThreads :
        \/ LegacyRunBegin(t)
        \/ LegacyRunLoop(t)
        \/ LegacyRunSleep(t)
        \/ LegacyRunWrite(t)
        \/ LegacyRunEnd(t)

\* pause_or_resume_timer(): self.running = not self.running
LegacyPauseOrResume ==
    /\ legacy.made /\ legacy.cpc = "idle"
    /\ legacy' = [legacy EXCEPT !.op = "pause_or_resume_timer", !.running = ~legacy.running]
    /\ UNCHANGED legacyFrame

\* add_time(extra): if self.remaining: self.remaining is read for the addition
\* (at most MaxAdds calls reach the addition)
LegacyAddTime(extra) ==
    /\ legacy.made /\ legacy.cpc = "idle"
    /\ LegacyRemainingTruthy => legacy.adds < MaxAdds
    /\ legacy' = IF LegacyRemainingTruthy
                 THEN [legacy EXCEPT !.op = "add_time", !.cpc = "add", !.ctmp = legacy.remaining, !.extra = extra,
                                     !.adds = @ + 1]
                 ELSE [legacy EXCEPT !.op = "add_time"]
    /\ UNCHANGED legacyFrame

\* add_time(extra): self.remaining += extra, the assignment
LegacyAddWrite ==
    /\ legacy.cpc = "add"
    /\ legacy' = [legacy EXCEPT !.cpc = "idle", !.remaining = legacy.ctmp + legacy.extra, !.ctmp = 0, !.extra = 0]
    /\ UNCHANGED legacyFrame

\* reset_timer(): if self.running or self.remaining: self.stop_signal = True; self.running = False
LegacyResetTimer ==
    /\ legacy.made /\ legacy.cpc = "idle"
    /\ legacy' = IF legacy.running \/ LegacyRemainingTruthy
                 THEN [legacy EXCEPT !.op = "reset_timer", !.stop_signal = TRUE, !.running = FALSE]
                 ELSE [legacy EXCEPT !.op = "reset_timer"]
    /\ UNCHANGED legacyFrame

LegacyNext ==
    \/ \E d \in 0..MaxDuration : LegacyNew(d)
    \/ LegacyStartTimer
    \/ LegacyRun
    \/ LegacyPauseOrResume
    \/ \E extra \in ExtraArgs : LegacyAddTime(extra)
    \/ LegacyAddWrite
    \/ LegacyResetTimer

\* no Timer of either kind has been constructed
LegacySpec == CatalogInit /\ [][LegacyNext]_vars

\* ============================================================ claims

\* C1: a Timer that is started and then left alone eventually reaches FINISHED
\* with remaining == 0 (the clock advances, the threads are scheduled fairly).
C1_NaturalFinish == (status = "RUNNING") ~> (status = "FINISHED" /\ remaining = 0)

C1_Witness == status = "FINISHED" /\ remaining = 0 /\ op = "start" /\ tpc = "dead"

\* C2: in a run that completes without stop or reset each registered on_end
\* callback is invoked exactly once: never twice, and once when no thread is
\* left between setting FINISHED and notifying.
NotifyPending ==
    \/ tpc = "finished" /\ t_callbacks # None
    \/ spc = "tick_notify" /\ s_callbacks # None

C2_OnEndExactlyOnce ==
    (status = "FINISHED" /\ ~stop_event /\ ~svc_stop /\ on_end # <<>>)
        => /\ endCount <= 1
           /\ ~NotifyPending => endCount = 1

\* C3: while the Timer is PAUSED and the control thread is between calls, no
\* step of a background thread or of the clock changes remaining or finishes
\* the Timer.
C3_PauseFreezes ==
    [][(status = "PAUSED" /\ cpc = "idle" /\ (TimerThread \/ ServiceThread \/ Advance))
        => (remaining' = remaining /\ status' = "PAUSED")]_vars

\* C4: a decrement by the background loop subtracts no time the Timer spent
\* PAUSED, and the first decrement after resume() subtracts at most the time
\* that has passed since resume().
C4_ResumeNoJump ==
    [][(T_Update /\ Delta >= Resolution)
        => (t_paused = 0 /\ (resumed => Delta <= sinceResume))]_vars

\* C5: when stop() returns on a Timer it found RUNNING or PAUSED with a live
\* thread, and the thread has exited, the status is STOPPED.
C5_StopStops ==
    [][(StopJoin /\ stoppedFrom \in {"RUNNING", "PAUSED"} /\ tpc = "dead")
        => status' = "STOPPED"]_vars

\* C6 as claimed: after reset() returns, status == IDLE, remaining == duration
\* and the background thread is not alive.
C6_ResetStopsThread ==
    [][ResetFinal => (status' = "IDLE" /\ remaining' = duration' /\ ~ThreadAlive')]_vars

\* C6 amended: after reset() returns, status == IDLE and remaining == duration,
\* and the background thread is not alive unless the bounded join of stop()
\* timed out.
C6_ResetRestores ==
    [][ResetFinal => /\ status' = "IDLE"
                     /\ remaining' = duration'
                     /\ ThreadAlive' => timedOut']_vars

C6_Witness ==
    /\ op = "reset" /\ cpc = "idle"
    /\ status = "IDLE" /\ remaining = duration
    /\ stop_event /\ tpc = "dead" /\ ~timedOut

\* C7: start() on a Timer that is RUNNING or PAUSED, or whose thread is alive,
\* changes neither status nor remaining, creates no thread and invokes no
\* on_start callback.
C7_StartIdempotent ==
    [][(Start /\ (status \in {"RUNNING", "PAUSED"} \/ tpc \notin {"none", "dead"}))
        => /\ status' = status /\ remaining' = remaining
           /\ tpc' = tpc /\ stop_event' = stop_event
           /\ cpc' = "idle" /\ startCount' = startCount]_vars

C7_Witness == op = "start" /\ cpc = "idle" /\ status = "PAUSED" /\ ThreadAlive /\ startCount = 1

\* C8: start() on a FINISHED or STOPPED Timer whose thread has exited leaves
\* status and remaining unchanged, spawns no thread and fires no callback.
C8_StartFromIdleOnly ==
    [][(Start /\ status \in {"FINISHED", "STOPPED"} /\ tpc = "dead")
        => /\ status' = status /\ remaining' = remaining
           /\ tpc' = tpc /\ cpc' = "idle"]_vars

\* C9: a timer started through the catalog never reaches FINISHED before it
\* has spent its duration, plus the time added, in RUNNING.
C9_NeverEarly == status = "FINISHED" => ~early

\* C10: at most one background thread decrements the remaining time of a Timer.
C10_SingleContext == Cardinality(decBy) <= 1

\* C11: add_time(extra) with extra > 0 increases remaining by exactly extra,
\* whatever the status; with extra <= 0 it leaves remaining unchanged; in both
\* cases the status is unchanged and no exception reaches the caller.
C11_AddTimeExact ==
    [][\A extra \in ExtraArgs :
        AddTimeCall(extra) =>
            /\ remaining' = (IF extra > 0 THEN remaining + extra ELSE remaining)
            /\ status' = status
            /\ raised' = "none"]_vars

\* add_time(extra > 0) has acted on a FINISHED Timer whose thread has ended
C11_Witness ==
    /\ op = "add_time" /\ added = ExtraSeconds
    /\ status = "FINISHED" /\ remaining = ExtraSeconds /\ tpc = "dead"

\* C12: in every state 0 <= remaining <= duration + the extra time added (since
\* construction or the last reset, which restores remaining to duration).
C12_RemainingBounds == 0 <= remaining /\ remaining <= duration + added

\* a tick larger than the time left has finished the Timer at remaining == 0
C12_Witness ==
    /\ status = "FINISHED" /\ remaining = 0 /\ clamped
    /\ decBy = {"control"} /\ cpc = "idle"

\* C13: Timer(duration=d) with d > 0 returns a Timer with status IDLE,
\* remaining == d and no background thread; with d <= 0 it raises and no
\* Timer is created.
C13_Construction ==
    [][Construct =>
        IF arg > 0
        THEN /\ created' /\ raised' = "none"
             /\ status' = "IDLE" /\ duration' = arg /\ remaining' = arg
             /\ ~ThreadAlive'
        ELSE /\ ~created' /\ raised' = "ValueError"
             /\ status' = NoTimer.status]_vars

\* the constructor was called with duration zero and raised
C13_Witness == arg = 0 /\ cpc = "exit" /\ ~created /\ raised = "ValueError"

\* C14: pause() unless the status is RUNNING, resume() unless it is PAUSED,
\* stop() when no background thread is alive and tick() unless the status is
\* RUNNING return at once, raise nothing and change neither status nor
\* remaining (nor the stop event, the anchor or the thread).
C14_InvalidOpsNoOp ==
    [][(\/ Pause /\ status # "RUNNING"
        \/ Resume /\ status # "PAUSED"
        \/ Stop /\ ~ThreadAlive
        \/ Tick /\ status # "RUNNING")
        => /\ status' = status /\ remaining' = remaining
           /\ stop_event' = stop_event /\ age' = age /\ tpc' = tpc
           /\ cpc' = "idle" /\ raised' = "none"]_vars

\* tick() was called on a PAUSED Timer and returned
C14_Witness == op = "tick" /\ cpc = "idle" /\ status = "PAUSED" /\ remaining > 0 /\ ThreadAlive

\* C15: tick(n), having found the Timer RUNNING, subtracts n from remaining
\* under the lock; when the result is <= 0, remaining becomes 0, the status
\* FINISHED and every on_end callback is then invoked; otherwise the status
\* stays RUNNING and tick() invokes no callback.
C15_TickContract ==
    [][/\ \A n \in 1..MaxTick :
            TickLockBy(n) =>
                IF remaining - n <= 0
                THEN remaining' = 0 /\ status' = "FINISHED" /\ c_callbacks' = on_end
                ELSE remaining' = remaining - n /\ status' = "RUNNING" /\ c_callbacks' = None
       /\ TickNotify =>
            IF c_callbacks # None
            THEN log' = log \o [i \in 1..Len(on_end) |-> <<"end", on_end[i]>>]
            ELSE log' = log /\ endCount' = endCount]_vars

\* tick() has finished a Timer and invoked its on_end callback
C15_Witness ==
    /\ op = "tick" /\ cpc = "idle" /\ decBy = {"control"}
    /\ status = "FINISHED" /\ remaining = 0
    /\ on_end # <<>> /\ endCount = 1 /\ log = <<<<"start", "cb">>, <<"end", "cb">>>>

\* the callbacks of a list as entries of the log
Tagged(kind, callbacks) == [i \in 1..Len(callbacks) |-> <<kind, callbacks[i]>>]

\* C16: a callback that raises does not keep the callbacks after it from being
\* invoked, lets start() return without an exception, does not end the
\* background loop through its failure path and leaves the status as it was:
\* both notifications invoke every callback of their list.
C16_CallbackErrorsAbsorbed ==
    [][/\ StartNotify =>
            /\ log' = log \o Tagged("start", c_callbacks)
            /\ status' = status /\ raised' = "none" /\ cpc' = "idle" /\ tpc' = tpc
       /\ (T_CheckFinished /\ status = "FINISHED" /\ t_callbacks # None) =>
            /\ log' = log \o Tagged("end", t_callbacks)
            /\ status' = "FINISHED" /\ tpc' # "failed"]_vars

\* start() has returned after a raising on_start callback and the one after
\* it; the loop has finished and invoked the callbacks after a raising on_end
\* callback
C16_Witness ==
    /\ log = Tagged("start", <<"bad", "cb">>) \o Tagged("end", <<"bad", "reads", "cb">>)
    /\ cpc = "idle" /\ raised = "none" /\ op = "start"
    /\ status = "FINISHED" /\ tpc = "dead"

\* C17: in every state the on_start callbacks of the run were each invoked at
\* most once, and once an on_end callback of the run has been invoked, the
\* start() of the run has finished notifying and every on_start entry of the
\* log precedes every on_end entry.
C17_StartBeforeEnd ==
    /\ startCount <= 1
    /\ \A i, j \in 1..Len(log) : (log[i][1] = "start" /\ log[j][1] = "end") => i < j
    /\ (\E j \in 1..Len(log) : log[j][1] = "end") => cpc # "start_notify"

IsStart(entry) == entry[1] = "start"
IsEnd(entry) == entry[1] = "end"

\* C18: once start() has notified, the on_start entries of the log are the
\* on_start list in its order; once on_end has been notified once, the on_end
\* entries of the log are the on_end list in its order.
C18_InsertionOrder ==
    /\ startCount = 1 => SelectSeq(log, IsStart) = Tagged("start", on_start)
    /\ endCount = 1 => SelectSeq(log, IsEnd) = Tagged("end", on_end)

\* both notifications of a run have taken place, each over a list of several callbacks
C18_Witness ==
    /\ startCount = 1 /\ endCount = 1
    /\ Len(on_start) = 2 /\ Len(on_end) = 3
    /\ log = Tagged("start", on_start) \o Tagged("end", on_end)
    /\ status = "FINISHED" /\ cpc = "idle" /\ decBy = {"control"}

\* C19: a thread that is about to invoke callbacks (start() and tick() after
\* their lock section, the loop after its own) does not hold the Timer's lock,
\* and the notification can run to its end even when a callback re-enters the
\* Timer and takes the lock.
C19_NotifyOutsideLock ==
    /\ cpc \in {"start_notify", "tick_notify"} =>
            /\ lock # "ctl"
            /\ c_callbacks # None => NotifyCanRun(c_callbacks)
    /\ tpc = "finished" =>
            /\ lock # "timer"
            /\ t_callbacks # None => NotifyCanRun(t_callbacks)
    /\ spc = "tick_notify" => lock # "service"

\* on_start and on_end callbacks that read timer.remaining have been invoked
\* and have returned
C19_Witness ==
    /\ on_start = <<"reads", "bad">>
    /\ log = Tagged("start", on_start) \o Tagged("end", <<"bad", "reads", "cb">>)
    /\ cpc = "idle" /\ tpc = "dead" /\ status = "FINISHED" /\ decBy = {"timer"}

\* C20: no write to a shared field of the Timer (remaining, status, the
\* anchor, the thread handle) has been made without holding the Timer's lock.
C20_WritesUnderLock == ~unlocked

\* the Timers the catalog holds
Registered == {n \in Names : Has(n)}

\* C21: create_timer(name, d) with a name that is not in the catalog and d > 0
\* registers a Timer no other name holds, IDLE with remaining = duration = d
\* and no thread, and returns it, as get_timer(name) does from then on; with a
\* name that is in the catalog, or with d <= 0, it raises an error and leaves
\* the three dictionaries of the service, and so every Timer, as they were.
C21_CreateUnique ==
    [][/\ \A n \in Names, d \in CreateArgs : CreateTimer(n, d) =>
             IF ~Has(n) /\ d > 0
             THEN /\ raised' = "none"
                  /\ timers'[n].id \notin {timers[m].id : m \in Names}
                  /\ timers'[n].status = "IDLE"
                  /\ timers'[n].duration = d /\ timers'[n].remaining = d
                  /\ ~TimerAlive(timers'[n])
                  /\ ret'.id = timers'[n].id
                  /\ \A m \in Names \ {n} : timers'[m] = timers[m]
             ELSE /\ raised' \in {"ValueError", "ValueError: exists"}
                  /\ timers' = timers /\ threads' = threads /\ stop_events' = stop_events
       /\ \A n \in Names : GetTimer(n) /\ Has(n) => ret'.id = timers[n].id /\ raised' = "none"
      ]_vars

\* create_timer was called with the name of a RUNNING Timer that has used up
\* part of its time, and raised
C21_Witness ==
    /\ op = "create_timer" /\ raised = "ValueError: exists"
    /\ Registered = Names
    /\ \E n \in Names : timers[n].status = "PAUSED" /\ timers[n].remaining < timers[n].duration
    /\ \E n \in Names : timers[n].status = "IDLE"

\* C22: remove_timer(name) raises a not-found error for a name that is not in
\* the catalog, raises a still-active error and leaves the Timer registered
\* when it is RUNNING or PAUSED, and otherwise takes the name out of the
\* catalog without touching the other Timers, after which get_timer(name)
\* returns None; no step takes a RUNNING or PAUSED Timer out of the catalog.
C22_RemoveInactiveOnly ==
    [][/\ \A n \in Names : RemoveTimer(n) =>
             IF ~Has(n)
             THEN raised' = "ValueError: not found" /\ timers' = timers
             ELSE IF timers[n].status \in {"RUNNING", "PAUSED"}
                  THEN raised' = "ValueError: still active" /\ timers' = timers
                  ELSE /\ raised' = "none"
                       /\ timers[n].status \in {"IDLE", "FINISHED", "STOPPED"}
                       /\ ~Has(n)'
                       /\ \A m \in Names \ {n} : timers'[m] = timers[m]
       /\ \A n \in Names : GetTimer(n) /\ ~Has(n) => ret' = Absent /\ raised' = "none"
       /\ \A n \in Names : Has(n) /\ ~Has(n)' => timers[n].status \notin {"RUNNING", "PAUSED"}
      ]_vars

\* remove_timer was refused for a PAUSED Timer, which is still registered,
\* after the Timer that was in the catalog when it was created had been removed
C22_Witness ==
    /\ op = "remove_timer" /\ raised = "ValueError: still active"
    /\ \E n \in Names : Has(n) /\ timers[n].status = "PAUSED" /\ timers[n].id = 2
    /\ \E n \in Names : ~Has(n)

\* C23: start_timer, stop_timer, pause_or_resume_timer, reset_timer and
\* add_time called with a name that is not in the catalog raise a not-found
\* error, return at once and leave the three dictionaries of the service, and
\* so every Timer, as they were; get_timer returns None for such a name and
\* does not raise.
C23_NotFound ==
    [][/\ \A n \in Names :
             /\ ~Has(n)
             /\ \/ StartTimer(n) \/ StopTimer(n) \/ PauseOrResumeTimer(n) \/ ResetTimer(n)
                \/ \E extra \in ExtraArgs : AddTimeTo(n, extra)
             => /\ raised' = "ValueError: not found"
                /\ timers' = timers /\ threads' = threads /\ stop_events' = stop_events
                /\ cpc' = "idle"
       /\ \A n \in Names : GetTimer(n) /\ ~Has(n) =>
             ret' = Absent /\ raised' = "none" /\ timers' = timers
      ]_vars

\* reset_timer was called with an unknown name while the Timer under the
\* other name was RUNNING with both of its threads alive
C23_Witness ==
    /\ op = "reset_timer" /\ raised = "ValueError: not found" /\ cpc = "idle"
    /\ \E n \in Names : ~Has(n)
    /\ \E n \in Names : Has(n) /\ timers[n].status = "RUNNING" /\ TimerAlive(timers[n]) /\ ServiceAlive(n)

\* C24: pause_or_resume_timer moves a RUNNING Timer to PAUSED and a PAUSED
\* Timer to RUNNING, and changes neither status nor remaining of an IDLE,
\* FINISHED or STOPPED Timer; a Timer the call has paused is still PAUSED when
\* the control thread calls next, so that a second call returns it to RUNNING.
C24_Toggle ==
    [][/\ SvcPauseOrResume =>
             /\ status = "RUNNING" => status' = "PAUSED"
             /\ status = "PAUSED" => status' = "RUNNING"
             /\ status \in {"IDLE", "FINISHED", "STOPPED"} => status' = status
             /\ remaining' = remaining
       /\ op = "pause_or_resume_timer" /\ status = "PAUSED" /\ ~SvcPauseOrResume /\ cpc' = cpc
             => status' = "PAUSED"
      ]_vars

\* the Timers other than the one registered as n are what they were
OthersUnchanged(n) == \A m \in Names \ {n} : timers'[m] = timers[m]

\* C25: a call of start_timer, stop_timer, pause_or_resume_timer, reset_timer
\* or add_time for one name, every later step of that call, and every step of
\* the two threads that run that Timer, its natural finish included, leave
\* the status and the remaining time of every other Timer of the catalog
\* unchanged.
C25_Independent ==
    [][/\ \A n \in Names :
             \/ OthersUnchanged(n)
             \/ ~ \/ StartTimer(n) \/ StopTimer(n) \/ PauseOrResumeTimer(n) \/ ResetTimer(n)
                  \/ \E extra \in ExtraArgs : AddTimeTo(n, extra)
                  \/ \E delta \in 1..MaxHeld : RunOf(n, delta)
                  \/ RunTimer(n)
       /\ \/ name \in Names /\ OthersUnchanged(name)
          \/ ~(TimerJoin \/ ServiceJoin \/ ResetTimerCall \/ ResetTimerFinal)
      ]_vars

\* Two Timers were started; the loop of one has finished it and has ended, the
\* other has been paused with all of its time left
C25_Witness ==
    \E n, m \in Registered :
        /\ timers[n].status = "FINISHED" /\ timers[n].remaining = 0
        /\ timers[n].thread = "dead" /\ ~timers[n].stop_event /\ stop_events[n] = "clear"
        /\ timers[m].status = "PAUSED" /\ timers[m].remaining = timers[m].duration
        /\ TimerAlive(timers[m]) /\ ServiceAlive(m)

\* C26: whenever the status is RUNNING or PAUSED the Timer's background
\* thread has been started and has not ended; in particular a thread that
\* has ended after a failure inside its loop has left the status STOPPED.
C26_NoDeadRunning == status \in {"RUNNING", "PAUSED"} => ThreadAlive

\* C27: once stop() has set the stop event, the loop of _run runs no new
\* iteration: from the head of the loop and from its wait the thread goes
\* straight to its end, and from the middle of an iteration it goes through
\* the one update of remaining that is left to the end, never back to the
\* head of the loop; and the thread does reach its end.
C27_PromptStop ==
    /\ [][stop_event =>
             /\ tpc \in {"loop", "wait"} => tpc' \in {tpc, "dead"}
             /\ tpc \in {"finished", "notify"} => tpc' \in {tpc, "wait", "notify", "dead"}
             /\ tpc \notin {"clock", "lock"} => remaining' = remaining
         ]_vars
    /\ (stop_event /\ ThreadAlive) ~> ~ThreadAlive

\* stop() has set the event while the loop was in the middle of an iteration,
\* and the one update that was left has used up the remaining time
C27_Witness ==
    /\ op = "stop" /\ stop_event /\ cpc = "join"
    /\ status = "FINISHED" /\ remaining = 0 /\ tpc = "finished"

\* C28: stop() returns to its caller whether or not the thread ever ends, and
\* when it returns with the thread still alive the status is STOPPED.
C28_StopReturns ==
    /\ (cpc = "join") ~> (cpc = "idle")
    /\ [][StopJoin /\ ThreadAlive => status' = "STOPPED"]_vars

\* C29: the list start() hands to _notify is the content of on_start when it
\* set RUNNING under the lock, the list the loop and tick() hand to _notify
\* is the content of on_end when they set FINISHED under the lock; _notify
\* invokes exactly that list, in order, whatever has been appended to on_start
\* or on_end in between, and an append changes neither a list that is waiting
\* to be invoked nor what has been invoked.
C29_SnapshotInvoked ==
    [][/\ Start /\ ~StartIgnored => status' = "RUNNING" /\ c_callbacks' = on_start
       /\ T_Update /\ Delta >= Resolution /\ RunFinishes(remaining - Delta) =>
             status' = "FINISHED" /\ t_callbacks' = on_end
       /\ \A n \in 1..MaxTick : TickLockBy(n) /\ TickFinishes(remaining - n) =>
             status' = "FINISHED" /\ c_callbacks' = on_end
       /\ StartNotify => log' = log \o Tagged("start", c_callbacks)
       /\ TickNotify /\ c_callbacks # None => log' = log \o Tagged("end", c_callbacks)
       /\ T_CheckFinished /\ status = "FINISHED" /\ t_callbacks # None => log' = log \o Tagged("end", t_callbacks)
       /\ AppendOnStart \/ AppendOnEnd =>
             c_callbacks' = c_callbacks /\ t_callbacks' = t_callbacks /\ log' = log
      ]_vars

\* The loop has set FINISHED and has invoked the one callback that on_end held
\* then; on_end has been given a second callback since the copy was made, and
\* on_start since start() invoked its callbacks
C29_Witness ==
    /\ tpc = "notify" /\ status = "FINISHED"
    /\ t_callbacks = <<"cb">> /\ on_end = <<"cb", "late">>
    /\ on_start = <<"cb", "late">>
    /\ log = <<<<"start", "cb">>, <<"end", "cb">>>>

\* C30: get_progress() returns (duration - remaining) / duration clamped to
\* [0, 1]: a value from 0 to 1 in every case, 0 when remaining is duration or
\* more (a fresh or reset Timer, or one given more time than has elapsed), 1
\* when no time remains, and the fraction itself in between.
C30_Progress ==
    [][GetProgress =>
          /\ ret'.den > 0
          /\ 0 <= ret'.num /\ ret'.num <= ret'.den
          /\ remaining >= duration => ret'.num = 0
          /\ remaining = 0 => ret'.num = ret'.den
          /\ (remaining >= 0 /\ remaining <= duration) =>
                ret'.num * duration = (duration - remaining) * ret'.den
      ]_vars

C30_Witness ==
    /\ op = "add_time" /\ status = "RUNNING"
    /\ remaining > duration
    /\ ret # Absent
    /\ ret = Float0

\* C31: once the status is FINISHED, with no stop request, every background
\* thread that drives the Timer ends: the Timer's own loop (is_active becomes
\* false) and the thread the service runs for it.
C31_ThreadsEndOnFinish ==
    status = "FINISHED" ~> (~ThreadAlive /\ ~SvcAlive)

\* C32: in every state, status == FINISHED implies remaining == 0.
C32_FinishedZero == status = "FINISHED" => remaining = 0

\* C32 as amended: every step that sets FINISHED sets remaining to 0 in the
\* same step; while the Timer stays FINISHED only add_time with a positive
\* span raises remaining, by that span; and a FINISHED Timer that has been
\* given no time since it was constructed or reset has remaining == 0.
C32_FinishedZeroUnlessAdded ==
    [][/\ status # "FINISHED" /\ status' = "FINISHED" => remaining' = 0
       /\ status = "FINISHED" /\ status' = "FINISHED" /\ remaining' # remaining =>
             \/ remaining' = 0
             \/ remaining' < remaining /\ remaining' > 0 /\ added > 0
             \/ \E extra \in ExtraArgs : AddTimeCall(extra) /\ extra > 0 /\ remaining' = remaining + extra
       /\ status' = "FINISHED" /\ added' = 0 => remaining' = 0
      ]_vars

\* a tick larger than the time left has finished the Timer, which had been
\* given time before, at remaining == 0
C32_Witness ==
    /\ status = "FINISHED" /\ remaining = 0 /\ clamped /\ added > 0
    /\ op = "tick" /\ cpc = "idle"

\* C33: FINISHED is terminal: no step, a stop() made while the thread is
\* still alive included, changes a FINISHED status to STOPPED, and the only
\* change out of FINISHED is the one to IDLE made by reset().
C33_FinishedTerminal ==
    [][status = "FINISHED" /\ status' # "FINISHED" =>
          status' # "STOPPED" /\ status' = "IDLE" /\ ResetFinal]_vars

\* C34: no end notification is lost: when the loop has set FINISHED and has
\* copied a non-empty on_end list in its lock section, its next step invokes
\* the callbacks of that copy, whatever stop(), pause() or reset() did in
\* between.
C34_EndNotified ==
    [][tpc = "finished" /\ t_callbacks # None /\ Len(t_callbacks) > 0 /\ tpc' # tpc =>
          log' = log \o Tagged("end", t_callbacks)]_vars

\* C35: add_time(extra) made while the loop of a RUNNING Timer is under way
\* loses no update.  add_time raises remaining by extra and leaves the loop's
\* pending update as it was; the loop's lock section subtracts its delta from
\* the remaining it finds, the added span included, and clamps at 0.  So after
\* both, in either order, remaining is the prior value plus extra minus the
\* delta, clamped at 0 where the loop's subtraction went below it.
C35_NoLostUpdate ==
    [][/\ \A extra \in ExtraArgs : AddTimeCall(extra) /\ extra > 0 =>
             /\ remaining' = remaining + extra
             /\ age' = age /\ t_lag' = t_lag /\ tpc' = tpc /\ status' = status
       /\ T_Update =>
             /\ remaining' = (IF age - t_lag >= Resolution
                              THEN Max(remaining - (age - t_lag), 0) ELSE remaining)
             /\ added' = added
      ]_vars

\* time was added to a RUNNING Timer and the loop has subtracted a delta
\* since: the added span is still counted
C35_Witness ==
    /\ status = "RUNNING" /\ tpc = "finished"
    /\ op = "add_time" /\ added = ExtraSeconds
    /\ decBy = {"timer"}
    /\ remaining > 0 /\ remaining < duration + added
    /\ remaining >= added

\* C36: insertions into the catalog are serialized: of two create_timer
\* calls with the same name at most one returns a Timer, and no step replaces
\* the Timer registered under a name (nothing is removed here).
C36_CreateSerialized ==
    [][/\ \A n \in Names : Has(n) => timers'[n].id = timers[n].id
       /\ \A c1, c2 \in Callers :
             c1 # c2 /\ callers'[c1].pc = "returned" /\ callers'[c2].pc = "returned"
                => callers'[c1].name # callers'[c2].name
      ]_vars

C38_StopLeavesNoThread == ExecStopped => ~SvcAlive /\ ~ThreadAlive

\* C39: once reset_timer() took effect on a started Timer of src/timer.py
\* that was given no extra time, and its countdown thread has stopped,
\* running is False and remaining is the full duration again.
C39_ResetRestores ==
    /\ legacy.op = "reset_timer" /\ legacy.stop_signal /\ legacy.adds = 0
    /\ LegacyStarted /\ ~LegacyAlive
    => ~legacy.running /\ ~legacy.unset /\ legacy.remaining = legacy.duration
====
